---- MODULE Spec2Model ----
(***************************************************************************)
(* Reflection-driven test-case synthesis engine (hoanh03/Code_DATN).       *)
(*                                                                         *)
(* Two state machines share this module:                                   *)
(*   Spec    - one run of a case generator (generate_test_cases,           *)
(*             _generate_constructor_test_cases, _generate_method_test_    *)
(*             cases, _generate_property_getter/setter_test_cases) on one  *)
(*             target callable, one loop iteration per step;               *)
(*   SpecCA  - one run of ClassAnalyzer.analyze_class on one class         *)
(*             hierarchy, one helper call per step.                        *)
(* Python values are records [t |-> type tag, v |-> integer payload]:      *)
(* booleans carry 1/0 because Python compares True == 1.                   *)
(***************************************************************************)
EXTENDS Integers, Sequences, FiniteSets, TLC

VARIABLES
    func,               \* the callable under generation: kind, params, fault
    cls,                \* its class: constructor params/fault, setter transform
    num_cases,          \* number of random candidates requested
    IS_WINDOWS,         \* platform flag: no SIGALRM on Windows
    pc,                 \* position of the generator
    idx,                \* swept parameter position (enumerate(param_names))
    edge_i,             \* position in the swept parameter's boundary list
    rand_i,             \* random iterations already started (range(num_cases))
    test_cases,         \* the case list being built
    used_inputs,        \* tuples already used for this callable
    constructor_inputs, \* constructor inputs found while probing
    valid_instance,     \* instance built while probing (0 = None)
    instances,          \* heap: data field of every instance constructed
    sigalrm,            \* installed SIGALRM disposition
    log,                \* history: every candidate proposed and its fate
    hierarchy,          \* analyzer: class_hierarchy of the analyzed class
    ns,                 \* analyzer: own namespace (__dict__) of each class
    bases,              \* analyzer: __bases__ of each class
    ca_pc,              \* analyzer: position in analyze_class
    ca_i,               \* analyzer: index of current_cls in class_hierarchy
    class_info,         \* analyzer: the description being built
    processed_methods,  \* analyzer: names already processed as methods
    processed_properties, \* analyzer: names already processed as properties
    arg,                \* analyzer: shape of the object handed to analyze_class
    ca_return,          \* analyzer: what analyze_class returned or raised
    eq_inputs1,         \* equivalence filter: first tuple
    eq_inputs2,         \* equivalence filter: second tuple
    eq_result,          \* equivalence filter: result ("unset" before the call)
    vs_param_type,      \* value synthesis: the declared type
    vs_class_type,      \* value synthesis: the class under test (or NoClassType)
    vs_result,          \* value synthesis: the results ("unset" before the calls)
    seed,               \* initial state of the random source of this run
    first_run,          \* log and case list of an earlier run from the same start
    class_test_cases,   \* renderer: the case mapping of the class being rendered
    content,            \* renderer: the items of the file rendered so far
    mock_functions,     \* renderer: (factory name, class name) pairs referenced
    valid_constructor_inputs, \* renderer: class name -> inputs of its fixture
    pg_pc,              \* renderer: position in generate_pytest_file
    pg_i                \* renderer: index in the loop over the members

gen_vars == <<func, cls, num_cases, IS_WINDOWS, pc, idx, edge_i, rand_i,
              test_cases, used_inputs, constructor_inputs, valid_instance,
              instances, sigalrm, log>>
ca_vars == <<hierarchy, ns, bases, ca_pc, ca_i, class_info,
             processed_methods, processed_properties, arg, ca_return>>
pure_vars == <<eq_inputs1, eq_inputs2, eq_result,
               vs_param_type, vs_class_type, vs_result>>
pg_vars == <<class_test_cases, content, mock_functions, valid_constructor_inputs,
             pg_pc, pg_i>>
run_vars == <<seed, first_run, pg_vars>>
vars == <<gen_vars, ca_vars, pure_vars, run_vars>>

----------------------------------------------------------------------------
(* Bounds *)

MaxNumCases == 2

\* Deepest nesting of _generate_value_for_type calls that is followed.
MaxDepth == 3

RandInts == {0, 7}

----------------------------------------------------------------------------
(* Python values *)

PyInt(n) == [t |-> "int", v |-> n]
PyBool(b) == [t |-> "bool", v |-> IF b THEN 1 ELSE 0]
None == [t |-> "none", v |-> 0]

\* What a value contributes to a target's result: a number its value, a
\* collection its size.
Weight(x) ==
    CASE x.t \in {"list", "tuple"} -> Len(x.v)
      [] x.t = "dict"              -> Cardinality(x.v)
      [] OTHER                     -> x.v

RECURSIVE Sum(_)
Sum(s) == IF s = <<>> THEN 0 ELSE Weight(Head(s)) + Sum(Tail(s))

Abs(n) == IF n < 0 THEN -n ELSE n

PyFloat(n) == [t |-> "float", v |-> n]
PyStr(str) == [t |-> "str", v |-> str]
PyList(items) == [t |-> "list", v |-> items]
PyTuple(items) == [t |-> "tuple", v |-> items]
\* A mapping is the set of its <<key, value>> pairs; keys are scalars.
PyDict(pairs) == [t |-> "dict", v |-> pairs]
\* An object whose __repr__ raises.
Unprintable == [t |-> "object", v |-> 0]

\* repr(x) returns: repr of a collection calls repr of its members.
RECURSIVE Printable(_)
Printable(x) ==
    CASE x.t \in {"list", "tuple"} -> \A k \in 1..Len(x.v) : Printable(x.v[k])
      [] x.t = "dict"   -> \A p \in x.v : Printable(p[1]) /\ Printable(p[2])
      [] x.t = "object" -> FALSE
      [] OTHER          -> TRUE

\* An object at a memory address.
Located(x, address) == [t |-> x.t, v |-> x.v, at |-> address]

\* repr(x): the value of a builtin; for an instance of a class without
\* __repr__, `<Acc object at 0x...>`, which shows its address.
Repr(x) == IF "at" \in DOMAIN x THEN <<x.t, x.at>> ELSE <<x.t, x.v>>

\* isinstance(val, (int, float, str, bool))
IsBasic(x) == x.t \in {"int", "float", "str", "bool"}

\* isinstance(val, (list, tuple))
IsCollection(x) == x.t \in {"list", "tuple"}

\* Python's == on two scalars: numbers by value (True == 1), strings by
\* content, a string never equals a number.
BasicEqual(val1, val2) ==
    IF val1.t = "str" \/ val2.t = "str"
    THEN val1.t = val2.t /\ val1.v = val2.v
    ELSE val1.v = val2.v

\* `key in val2` and `val2[key]` for a mapping.
DictHas(d, key) == \E p \in d.v : BasicEqual(p[1], key)
DictGet(d, key) == (CHOOSE p \in d.v : BasicEqual(p[1], key))[2]

\* Mutant of SameSize: the mapping branch does not compare the sizes.
SameSizeUnchecked(val1, val2) == TRUE

\* `if len(val1) != len(val2): return False` of the mapping branch.
SameSize(val1, val2) == Cardinality(val1.v) = Cardinality(val2.v)

RECURSIVE _are_functionally_equivalent(_, _)

\* Mutant of ValuesEquivalent: scalars are compared by printable
\* representation, like every other object.
ValuesEquivalentByRepr(val1, val2) ==
    IF IsCollection(val1) /\ IsCollection(val2)
    THEN /\ Len(val1.v) = Len(val2.v)
         /\ \A k \in 1..Len(val1.v) :
              _are_functionally_equivalent(<<val1.v[k]>>, <<val2.v[k]>>)
    ELSE IF val1.t = "dict" /\ val2.t = "dict"
    THEN /\ SameSize(val1, val2)
         /\ \A p \in val1.v :
              /\ DictHas(val2, p[1])
              /\ _are_functionally_equivalent(<<p[2]>>, <<DictGet(val2, p[1])>>)
    ELSE Printable(val1) /\ Printable(val2) /\ Repr(val1) = Repr(val2)

\* The body of `for i, (val1, val2) in enumerate(zip(inputs1, inputs2))`:
\* TRUE when the loop goes on, FALSE when it returns False.
ValuesEquivalent(val1, val2) ==
    IF IsBasic(val1) /\ IsBasic(val2)
    THEN BasicEqual(val1, val2)
    ELSE IF IsCollection(val1) /\ IsCollection(val2)
    THEN /\ Len(val1.v) = Len(val2.v)
         /\ \A k \in 1..Len(val1.v) :
              _are_functionally_equivalent(<<val1.v[k]>>, <<val2.v[k]>>)
    ELSE IF val1.t = "dict" /\ val2.t = "dict"
    THEN /\ SameSize(val1, val2)
         /\ \A p \in val1.v :
              /\ DictHas(val2, p[1])
              /\ _are_functionally_equivalent(<<p[2]>>, <<DictGet(val2, p[1])>>)
    ELSE Printable(val1) /\ Printable(val2) /\ Repr(val1) = Repr(val2)

_are_functionally_equivalent(inputs1, inputs2) ==
    /\ Len(inputs1) = Len(inputs2)
    /\ \A i \in 1..Len(inputs1) : ValuesEquivalent(inputs1[i], inputs2[i])

----------------------------------------------------------------------------
(* ValueGenerator *)

\* The keys of the two dictionaries of ValueGenerator.
SupportedTypes == {"int", "float", "str", "bool", "list", "dict", "tuple"}

\* `type_generators.get(param_type)`: the generator's name, "None" for no generator.
get_generator_for_type(param_type) ==
    CASE param_type = "int"   -> "generate_int_values"
      [] param_type = "float" -> "generate_float_values"
      [] param_type = "str"   -> "generate_string_values"
      [] param_type = "bool"  -> "generate_bool_values"
      [] param_type = "list"  -> "generate_list_values"
      [] param_type = "dict"  -> "generate_dict_values"
      [] param_type = "tuple" -> "generate_tuple_values"
      [] OTHER                -> "None"

get_edge_cases_for_type(param_type) ==
    CASE param_type = "int"   -> <<PyInt(0), PyInt(1), PyInt(-1), PyInt(100), PyInt(-100)>>
      [] param_type = "float" -> <<PyFloat(0), PyFloat(1), PyFloat(-1), PyFloat(100), PyFloat(-100)>>
      [] param_type = "str"   -> <<PyStr(""), PyStr("a"), PyStr(" "), PyStr("abc"),
                                   PyStr("AAAAAAAAAAAAAAAAAAAAAAAAAAAAAAAAAAAAAAAAAAAAAAAAAAAAAAAAAAAAAAAAAAAAAAAAAAAAAAAAAAAAAAAAAAAAAAAAAAAA")>>
      [] param_type = "bool"  -> <<PyBool(TRUE), PyBool(FALSE)>>
      [] param_type = "list"  -> <<PyList(<<>>), PyList(<<PyInt(1)>>),
                                   PyList(<<PyInt(1), PyInt(2), PyInt(3)>>)>>
      [] param_type = "dict"  -> <<PyDict({}), PyDict({<<PyStr("key"), PyStr("value")>>}),
                                   PyDict({<<PyStr("a"), PyInt(1)>>, <<PyStr("b"), PyInt(2)>>})>>
      [] param_type = "tuple" -> <<PyTuple(<<>>), PyTuple(<<PyInt(1)>>),
                                   PyTuple(<<PyInt(1), PyInt(2), PyInt(3)>>)>>
      [] OTHER                -> <<None>>

\* The random generators, each sampled at two of the values it can return.
generate_int_values == {PyInt(n) : n \in RandInts}

generate_float_values == {PyFloat(n) : n \in RandInts}

generate_string_values == {PyStr(""), PyStr("a7")}

generate_bool_values == {PyBool(TRUE), PyBool(FALSE)}

generate_list_values == {PyList(<<>>), PyList(<<PyInt(7)>>)}

generate_dict_values == {PyDict({}), PyDict({<<PyStr("k"), PyInt(7)>>})}

generate_tuple_values == {PyTuple(<<>>), PyTuple(<<PyInt(7)>>)}

\* `generator = get_generator_for_type(param_type)`, then `generator(1)[0]`
\* or None: the values the default path can return.
_generate_value_for_type(param_type) ==
    CASE get_generator_for_type(param_type) = "generate_int_values"    -> generate_int_values
      [] get_generator_for_type(param_type) = "generate_float_values"  -> generate_float_values
      [] get_generator_for_type(param_type) = "generate_string_values" -> generate_string_values
      [] get_generator_for_type(param_type) = "generate_bool_values"   -> generate_bool_values
      [] get_generator_for_type(param_type) = "generate_list_values"   -> generate_list_values
      [] get_generator_for_type(param_type) = "generate_dict_values"   -> generate_dict_values
      [] get_generator_for_type(param_type) = "generate_tuple_values"  -> generate_tuple_values
      [] OTHER                                                         -> {None}

----------------------------------------------------------------------------
(* Targets: the callable under generation and its class.                   *)
(* A target behaves normally unless its fault is triggered; the trigger is *)
(* a falsy first argument (0, False, None) or an empty argument list.      *)

Signatures == {<<>>, <<"int">>, <<"bool">>, <<"Any">>, <<"bool", "bool">>}

CtorSignatures == {<<>>, <<"int">>, <<"bool">>}

Faults == {"none", "raise", "hang", "exit"}

Transforms == {"id", "abs"}

NoClass == [ctor_params |-> <<>>, ctor_fault |-> "none", transform |-> "id", described |-> TRUE]

\* A class whose __init__ analysis fails (an annotation that cannot be
\* resolved): analyze_class returns a description without 'constructor'.
UndescribedClass ==
    [ctor_params |-> <<"int">>, ctor_fault |-> "none", transform |-> "id", described |-> FALSE]

\* A class that cannot be constructed, owning class-bound and static members.
FailingClass ==
    [ctor_params |-> <<"int">>, ctor_fault |-> "raise", transform |-> "id", described |-> TRUE]

Bad(inputs) == inputs = <<>> \/ inputs[1].v = 0

\* A target that changes its mutable arguments in place (xs.append(...),
\* d[key] = ...) and returns normally.
Mutating == "mutate"

\* What calling a target with the given fault on the given inputs does.
Call(fault, inputs) ==
    IF fault \in Faults \ {"none"} /\ Bad(inputs)
    THEN CASE fault = "raise" -> [o |-> "raise", kind |-> "ValueError"]
           [] fault = "hang"  -> [o |-> "hang", kind |-> "TimeoutException"]
           [] fault = "exit"  -> [o |-> "exit", kind |-> "SystemExit"]
    ELSE [o |-> "return", kind |-> "None"]

\* cls(*ctor_inputs): a wrong argument count raises TypeError before the body runs.
Construct(ctor_inputs) ==
    IF Len(ctor_inputs) # Len(cls.ctor_params)
    THEN [o |-> "raise", kind |-> "TypeError"]
    ELSE Call(cls.ctor_fault, ctor_inputs)

\* In-place mutation of one argument by a mutating target: scalars, null
\* and tuples are immutable.
Mutate(x) ==
    CASE x.t = "list" -> PyList(Append(x.v, PyInt(99)))
      [] x.t = "dict" -> PyDict(x.v \cup {<<PyStr("z"), PyInt(1)>>})
      [] OTHER        -> x

\* What a stored reference to the argument list shows once the call is over.
\* `inputs` itself (TestCase(inputs=inputs)) and its shallow copy
\* (used_inputs.append(inputs.copy())) hold the very objects the target
\* received, so they show the arguments as the target left them.
Shared(inputs, args) == args

\* The arguments after func(*inputs) has run.
AfterCall(inputs) ==
    IF func.fault = Mutating
    THEN [j \in 1..Len(inputs) |-> Mutate(inputs[j])]
    ELSE inputs

\* The data field a constructor leaves in the new instance.
InitialData(ctor_inputs) == PyInt(Sum(ctor_inputs))

\* A free function, class method or static method returns a function of its inputs.
FuncResult(inputs) == PyInt(Sum(inputs))

\* An instance method first mutates the instance, then returns a value that
\* depends on the mutated data and on its inputs.
MethodMutation(data) == PyInt(data.v + 1)
MethodResult(data, inputs) == PyInt(MethodMutation(data).v + Sum(inputs))

\* A property setter stores a (possibly transformed) value and returns None.
SetterStores(value) ==
    IF cls.transform = "abs" /\ value.t = "int" THEN PyInt(Abs(value.v)) ELSE value
SetterReturns(value) == None

----------------------------------------------------------------------------
(* Case records: models.py *)

TestCase(inputs, expected_output, raises) ==
    [inputs |-> inputs, expected_output |-> expected_output, raises |-> raises]

ClassMethodTestCase(ctor_inputs, method_name, method_inputs, expected_output, raises, is_property_getter) ==
    [constructor_inputs |-> ctor_inputs, method_name |-> method_name,
     method_inputs |-> method_inputs, expected_output |-> expected_output,
     raises |-> raises, is_property_getter |-> is_property_getter]

MethodName == "m"
PropName == "value"
GetterName == "get_value"
SetterName == "set_value"

----------------------------------------------------------------------------
(* Value synthesis for one declared type, with the class under test        *)

\* An instance of the class under test, holding the data its constructor left.
PyInstance(data) == [t |-> "instance", v |-> data.v]

\* The class under test and another class, by __name__.
ClassNames == {"Acc", "Other"}

\* Declared types: the supported ones, a missing annotation (Any), two
\* unsupported builtins and the two classes.
DeclaredTypes == SupportedTypes \cup {"Any", "complex", "NoneType"} \cup ClassNames

\* Mutant of SelfTyped: any parameter is built as an instance of the class under test.
SelfTypedAnyClass(param_type, class_type) == class_type # "None"

\* `class_type and param_type and hasattr(param_type, '__name__') and
\*  param_type.__name__ == class_type.__name__`
SelfTyped(param_type, class_type) == class_type # "None" /\ param_type = class_type

\* Mutant of InnerClassType: the recursive call passes the class under test on.
InnerClassTypePassedOn(class_type) == class_type

\* `value = self._generate_value_for_type(inner_param_type, inner_param_name)`:
\* the recursive call is made without class_type.
InnerClassType(class_type) == "None"

RECURSIVE SynthAt(_, _, _)
RECURSIVE SynthTuple(_, _, _)

\* `for name: value = self._generate_value_for_type(type, name, class_type);
\*  inputs.append(value)`: the tuples the loop can build at recursion depth d.
\* A call that does not return leaves the tuple unbuilt.
SynthTuple(types, class_type, d) ==
    IF types = <<>>
    THEN {[o |-> "return", values |-> <<>>, depth |-> d, ctor_inputs |-> <<>>]}
    ELSE UNION {
           IF r.o # "return"
           THEN {[o |-> r.o, values |-> <<>>, depth |-> r.depth, ctor_inputs |-> r.ctor_inputs]}
           ELSE {[o |-> t.o,
                  values |-> IF t.o = "return" THEN <<r.value>> \o t.values ELSE <<>>,
                  depth |-> IF t.depth > r.depth THEN t.depth ELSE r.depth,
                  ctor_inputs |-> r.ctor_inputs] :
                    t \in SynthTuple(Tail(types), class_type, d)} :
           r \in SynthAt(Head(types), class_type, d)}

\* _generate_value_for_type(param_type, param_name, class_type) entered at
\* recursion depth d: what the call does.  The self-typed branch builds
\* `param_type(*constructor_inputs)` from the constructor descriptor; an
\* Exception there (the interpreter's recursion limit included) gives None,
\* anything else the constructor does (exit, hang) is not handled.
SynthAt(param_type, class_type, d) ==
    IF SelfTyped(param_type, class_type) /\ cls.described
    THEN IF d >= MaxDepth
         THEN {[o |-> "return", value |-> None, depth |-> d, ctor_inputs |-> <<>>]}
         ELSE {LET c == Construct(t.values)
               IN CASE t.o # "return" ->
                         [o |-> t.o, value |-> None, depth |-> t.depth, ctor_inputs |-> <<>>]
                    [] c.o = "return" ->
                         [o |-> "return", value |-> PyInstance(InitialData(t.values)),
                          depth |-> t.depth, ctor_inputs |-> t.values]
                    [] c.o = "raise" ->
                         [o |-> "return", value |-> None, depth |-> t.depth,
                          ctor_inputs |-> t.values]
                    [] OTHER ->
                         [o |-> c.o, value |-> None, depth |-> t.depth,
                          ctor_inputs |-> t.values] :
                 t \in SynthTuple(cls.ctor_params, InnerClassType(class_type), d + 1)}
    ELSE {[o |-> "return", value |-> v, depth |-> d, ctor_inputs |-> <<>>] :
            v \in _generate_value_for_type(param_type)}

_generate_value_for_type_in_class(param_type, class_type) ==
    SynthAt(param_type, class_type, 0)

----------------------------------------------------------------------------
(* Candidate tuples *)

\* The class under test, by __name__.
ClassUnderTest == "Acc"

\* The class_type argument of _generate_value_for_type: generate_test_cases
\* passes none, the class generators pass cls.
ClassType == IF func.kind = "function" THEN "None" ELSE ClassUnderTest

\* The inputs a recorded case holds.
CaseInputs(c) ==
    CASE func.kind = "function"    -> c.inputs
      [] func.kind = "constructor" -> c.constructor_inputs
      [] OTHER                     -> c.method_inputs

\* The addresses of the objects that are still referenced: the inputs held by
\* the used tuples, by the cases recorded so far and by the case list an
\* earlier call returned.
LiveAddresses ==
    LET held == {used_inputs[k] : k \in 1..Len(used_inputs)}
                \cup {CaseInputs(test_cases[k]) : k \in 1..Len(test_cases)}
                \cup {CaseInputs(first_run.test_cases[k]) :
                        k \in 1..Len(first_run.test_cases)}
    IN UNION {{t[j].at : j \in {i \in 1..Len(t) : "at" \in DOMAIN t[i]}} : t \in held}

\* The addresses a new object can be allocated at: any address no live object
\* has.  Addresses matter only up to equality, and there are always more of
\* them than live objects, so the lowest free ones stand for all.
FreeAddresses == (1..(Cardinality(LiveAddresses) + 2)) \ LiveAddresses

\* `value = self._generate_value_for_type(param_type, name, class_type)` where
\* the call returns: the values it can give.  An instance it builds is a new
\* object, at an address no live object has.
SynthValues(param_type) ==
    LET returned == {r.value : r \in {x \in SynthAt(param_type, ClassType, 0) : x.o = "return"}}
        built == {x \in returned : x.t = "instance"}
    IN (returned \ built)
       \cup (IF built = {} THEN {}
             ELSE {Located(x, address) : x \in built, address \in FreeAddresses})

\* The tuples `for name: inputs.append(...)` can build when the position
\* `swept` (0 for none) takes `edge_value` instead of a synthesized value:
\* nothing is synthesized for the swept position, and the objects built for
\* the others are distinct.
SynthInputs(params, swept, edge_value) ==
    LET others == (1..Len(params)) \ {swept}
    IN {s \in [1..Len(params) ->
                 {edge_value} \cup UNION {SynthValues(params[j]) : j \in others}] :
           /\ \A j \in others : s[j] \in SynthValues(params[j])
           /\ swept \in 1..Len(params) => s[swept] = edge_value
           /\ \A j, k \in others :
                 ("at" \in DOMAIN s[j] /\ "at" \in DOMAIN s[k] /\ j # k)
                     => s[j].at # s[k].at}

\* `inputs.append(self._generate_value_for_type(...))` for every parameter.
RandomInputs(params) == SynthInputs(params, 0, None)

\* `inputs.append(edge_value)` for parameter i, a synthesized value for the others.
EdgeInputs(params, i, edge_value) == SynthInputs(params, i, edge_value)

----------------------------------------------------------------------------
(* Timeout-protected invocation *)

\* `if not IS_WINDOWS: signal.signal(SIGALRM, handler); signal.alarm(3)`
Armed(handler) == IF IS_WINDOWS THEN "none" ELSE handler

Installed(handler) == IF IS_WINDOWS THEN sigalrm ELSE handler

\* Mutant of Fate: the timeout falls through to the generic handler and is
\* recorded as an expected error.
FateTimeoutAsError(outcome, armed) ==
    CASE outcome.o = "return" -> "recorded_success"
      [] outcome.o = "raise"  -> "recorded_failure"
      [] outcome.o = "exit"   -> "aborted"
      [] outcome.o = "hang"   ->
            CASE armed = "timeout_handler" -> "recorded_failure"
              [] armed = "SIG_DFL"         -> "killed"
              [] OTHER                     -> "blocked"

\* Fate of an invoked candidate, from what the target did and the alarm armed:
\* try / except TimeoutException / except Exception / finally alarm(0).
Fate(outcome, armed) ==
    CASE outcome.o = "return" -> "recorded_success"
      [] outcome.o = "raise"  -> "recorded_failure"
      [] outcome.o = "exit"   -> "aborted"
      [] outcome.o = "hang"   ->
            CASE armed = "timeout_handler" -> "discarded"
              [] armed = "SIG_DFL"         -> "killed"
              [] OTHER                     -> "blocked"

Stopped == {"aborted", "killed", "blocked"}

PcAfter(fate, normal) == IF fate \in Stopped THEN fate ELSE normal

\* Mutant of AppendCase: an erroring case keeps an expected output.
AppendCaseKeepsOutput(cases, fate, ok_case, err_case) ==
    CASE fate = "recorded_success" -> Append(cases, ok_case)
      [] fate = "recorded_failure" ->
            Append(cases, [err_case EXCEPT !.expected_output = PyInt(0)])
      [] OTHER                     -> cases

AppendCase(cases, fate, ok_case, err_case) ==
    CASE fate = "recorded_success" -> Append(cases, ok_case)
      [] fate = "recorded_failure" -> Append(cases, err_case)
      [] OTHER                     -> cases

\* A candidate that is skipped as a duplicate is never invoked.
NotInvoked == [o |-> "skip", kind |-> "None"]

\* The disposition the constructor loops install before signal.alarm(3).
CtorAlarmHandler == "SIG_DFL"

\* The handler whose alarm is armed around the invocation a log entry stands
\* for: none for a skipped duplicate, for the probing constructions and for
\* the no-argument constructor case; SIG_DFL in the constructor loops; the
\* timeout handler in every other loop.
AlarmArmed(phase, outcome) ==
    CASE outcome.o = "skip"                            -> "none"
      [] phase = "probe"                               -> "none"
      [] phase = "noargs" /\ func.kind = "constructor" -> "none"
      [] func.kind = "constructor"                     -> Armed(CtorAlarmHandler)
      [] OTHER                                         -> Armed("timeout_handler")

\* Mutant of AlarmAfter: signal.alarm(0) follows the call inside the try
\* block instead of standing in the finally clause.
AlarmAfterCancelOnReturn(armed, outcome) ==
    CASE armed = "none"                           -> "off"
      [] outcome.o = "return"                     -> "off"
      [] outcome.o = "hang"                       -> "fired"
      [] OTHER                                    -> "pending"

\* The alarm when the iteration is left: signal.alarm(3) arms it, the target
\* runs, and `finally: signal.alarm(0)` cancels it on every way out; an alarm
\* that expired during the call has fired.
AlarmAfter(armed, outcome) ==
    CASE armed = "none"                           -> "off"
      [] outcome.o = "hang" /\ armed = "SIG_DFL"  -> "fired"
      [] OTHER                                    -> "off"

LogEntry(phase, inputs, outcome, fate, receiver) ==
    [phase |-> phase, param |-> IF phase = "edge" THEN idx ELSE 0,
     inputs |-> inputs, o |-> outcome.o, raised |-> outcome.kind,
     fate |-> fate, receiver |-> receiver,
     armed |-> AlarmArmed(phase, outcome),
     alarm |-> AlarmAfter(AlarmArmed(phase, outcome), outcome)]

\* `for existing_inputs in used_inputs: if _are_functionally_equivalent(...)`
IsDuplicate(inputs, used) ==
    \E k \in 1..Len(used) : _are_functionally_equivalent(inputs, used[k])

----------------------------------------------------------------------------
(* Loop positions *)

NumEdges(params, i) == Len(get_edge_cases_for_type(params[i]))

RandomOrDone == IF num_cases > 0 THEN "random" ELSE "done"

\* Mutant of EdgeAdvance: boundary-value-major, swept-parameter-minor order.
EdgeAdvanceValueMajor(params) ==
    IF idx < Len(params)
    THEN [pc |-> "edge", idx |-> idx + 1, edge_i |-> edge_i]
    ELSE IF edge_i < NumEdges(params, 1)
         THEN [pc |-> "edge", idx |-> 1, edge_i |-> edge_i + 1]
         ELSE [pc |-> RandomOrDone, idx |-> idx, edge_i |-> edge_i]

\* Position after the sweep candidate (idx, edge_i) has been processed.
EdgeAdvance(params) ==
    IF edge_i < NumEdges(params, idx)
    THEN [pc |-> "edge", idx |-> idx, edge_i |-> edge_i + 1]
    ELSE IF idx < Len(params)
         THEN [pc |-> "edge", idx |-> idx + 1, edge_i |-> 1]
         ELSE [pc |-> RandomOrDone, idx |-> idx, edge_i |-> edge_i]

\* Mutant of RandomAdvance: a candidate skipped as a duplicate is replaced,
\* the loop going on until num_cases candidates have been invoked.
RandomAdvanceReplacingSkipped ==
    IF Len(SelectSeq(log, LAMBDA e : e.phase = "random" /\ e.o # "skip")) + 1 < num_cases
    THEN "random" ELSE "done"

\* `for _ in range(num_cases)`: the position after one more iteration.
RandomAdvance == IF rand_i + 1 < num_cases THEN "random" ELSE "done"

----------------------------------------------------------------------------
(* generate_test_cases: free functions (test_generator.py) *)

\* One iteration of the sweep in _generate_edge_cases.  No used-tuples
\* collection exists here: every candidate is invoked.
FuncEdgeCase ==
    /\ func.kind = "function" /\ pc = "edge"
    /\ LET edge_value == get_edge_cases_for_type(func.params[idx])[edge_i]
           adv == EdgeAdvance(func.params)
       IN \E inputs \in EdgeInputs(func.params, idx, edge_value) :
            LET outcome == Call(func.fault, inputs)
                fate == Fate(outcome, Armed("timeout_handler"))
            IN /\ test_cases' = AppendCase(test_cases, fate,
                                    TestCase(Shared(inputs, AfterCall(inputs)), FuncResult(AfterCall(inputs)), "None"),
                                    TestCase(Shared(inputs, AfterCall(inputs)), None, outcome.kind))
               /\ log' = Append(log, LogEntry("edge", inputs, outcome, fate, 0))
               /\ pc' = PcAfter(fate, adv.pc)
               /\ idx' = adv.idx
               /\ edge_i' = adv.edge_i
    /\ sigalrm' = Installed("timeout_handler")
    /\ UNCHANGED <<func, cls, num_cases, IS_WINDOWS, rand_i, used_inputs,
                   constructor_inputs, valid_instance, instances, ca_vars, pure_vars, run_vars>>

\* One iteration of the random loop of generate_test_cases.
FuncRandomCase ==
    /\ func.kind = "function" /\ pc = "random"
    /\ \E inputs \in RandomInputs(func.params) :
         LET outcome == Call(func.fault, inputs)
             fate == Fate(outcome, Armed("timeout_handler"))
         IN /\ test_cases' = AppendCase(test_cases, fate,
                                 TestCase(Shared(inputs, AfterCall(inputs)), FuncResult(AfterCall(inputs)), "None"),
                                 TestCase(Shared(inputs, AfterCall(inputs)), None, outcome.kind))
            /\ log' = Append(log, LogEntry("random", inputs, outcome, fate, 0))
            /\ pc' = PcAfter(fate, RandomAdvance)
    /\ rand_i' = rand_i + 1
    /\ sigalrm' = Installed("timeout_handler")
    /\ UNCHANGED <<func, cls, num_cases, IS_WINDOWS, idx, edge_i, used_inputs,
                   constructor_inputs, valid_instance, instances, ca_vars, pure_vars, run_vars>>

----------------------------------------------------------------------------
(* _generate_constructor_test_cases (test_generator_methods.py) *)

CtorCase(inputs, raises) ==
    ClassMethodTestCase(inputs, "__init__", <<>>, None, raises, FALSE)

\* `if not param_names:` - cls() is called with no alarm armed.
CtorNoArgs ==
    /\ func.kind = "constructor" /\ pc = "noargs"
    /\ LET outcome == Construct(<<>>)
           fate == Fate(outcome, "none")
       IN /\ test_cases' = AppendCase(test_cases, fate,
                               CtorCase(<<>>, "None"), CtorCase(<<>>, outcome.kind))
          /\ log' = Append(log, LogEntry("noargs", <<>>, outcome, fate, 0))
          /\ pc' = PcAfter(fate, "done")
          /\ instances' = IF outcome.o = "return"
                          THEN Append(instances, InitialData(<<>>)) ELSE instances
    /\ UNCHANGED <<func, cls, num_cases, IS_WINDOWS, idx, edge_i, rand_i, used_inputs,
                   constructor_inputs, valid_instance, sigalrm, ca_vars, pure_vars, run_vars>>

\* One iteration of the constructor's boundary sweep.
CtorEdgeCase ==
    /\ func.kind = "constructor" /\ pc = "edge"
    /\ LET edge_value == get_edge_cases_for_type(func.params[idx])[edge_i]
           adv == EdgeAdvance(func.params)
       IN \E inputs \in EdgeInputs(func.params, idx, edge_value) :
            IF IsDuplicate(inputs, used_inputs)
            THEN /\ log' = Append(log, LogEntry("edge", inputs, NotInvoked, "deduped", 0))
                 /\ pc' = adv.pc
                 /\ UNCHANGED <<test_cases, used_inputs, instances, sigalrm>>
            ELSE LET outcome == Construct(inputs)
                     fate == Fate(outcome, Armed(CtorAlarmHandler))
                 IN /\ used_inputs' = Append(used_inputs, inputs)
                    /\ test_cases' = AppendCase(test_cases, fate,
                                         CtorCase(inputs, "None"),
                                         CtorCase(inputs, outcome.kind))
                    /\ log' = Append(log, LogEntry("edge", inputs, outcome, fate, 0))
                    /\ pc' = PcAfter(fate, adv.pc)
                    /\ instances' = IF outcome.o = "return"
                                    THEN Append(instances, InitialData(inputs))
                                    ELSE instances
                    /\ sigalrm' = Installed(CtorAlarmHandler)
    /\ idx' = EdgeAdvance(func.params).idx
    /\ edge_i' = EdgeAdvance(func.params).edge_i
    /\ UNCHANGED <<func, cls, num_cases, IS_WINDOWS, rand_i,
                   constructor_inputs, valid_instance, ca_vars, pure_vars, run_vars>>

\* One iteration of the constructor's random loop: the candidate is neither
\* compared with used_inputs nor added to it.
CtorRandomCase ==
    /\ func.kind = "constructor" /\ pc = "random"
    /\ \E inputs \in RandomInputs(func.params) :
         LET outcome == Construct(inputs)
             fate == Fate(outcome, Armed(CtorAlarmHandler))
         IN /\ test_cases' = AppendCase(test_cases, fate,
                                 CtorCase(inputs, "None"), CtorCase(inputs, outcome.kind))
            /\ log' = Append(log, LogEntry("random", inputs, outcome, fate, 0))
            /\ pc' = PcAfter(fate, RandomAdvance)
            /\ instances' = IF outcome.o = "return"
                            THEN Append(instances, InitialData(inputs)) ELSE instances
    /\ rand_i' = rand_i + 1
    /\ sigalrm' = Installed(CtorAlarmHandler)
    /\ UNCHANGED <<func, cls, num_cases, IS_WINDOWS, idx, edge_i, used_inputs,
                   constructor_inputs, valid_instance, ca_vars, pure_vars, run_vars>>

----------------------------------------------------------------------------
(* _generate_method_test_cases (test_generator_methods.py) *)

MethodTypes == {"methods", "class_methods", "static_methods"}

AfterProbe(params) == IF params = <<>> THEN "noargs" ELSE "edge"

MethodCase(inputs, expected_output, raises) ==
    ClassMethodTestCase(constructor_inputs, MethodName, inputs, expected_output,
                        raises, FALSE)

\* Mutant of AfterFailedProbe: generation goes on without an instance.
AfterFailedProbeContinues(method_type, params) == AfterProbe(params)

\* `if method_type == 'methods' and valid_instance is None: return test_cases`
AfterFailedProbe(method_type, params) ==
    IF method_type = "methods" THEN "done" ELSE AfterProbe(params)

\* The log entry of a failed `cls()` that is followed by a second attempt.
Retry(first) == LogEntry("probe", <<>>, first, "probe_retry", 0)

\* `valid_instance = cls()`, and on failure one retry with synthesized
\* constructor inputs when the class description has a constructor.  No alarm
\* is armed around either construction.
MethodProbe ==
    /\ func.kind = "methods" /\ pc = "probe"
    /\ LET first == Construct(<<>>)
       IN IF first.o = "return"
          THEN /\ instances' = Append(instances, InitialData(<<>>))
               /\ valid_instance' = Len(instances) + 1
               /\ constructor_inputs' = <<>>
               /\ pc' = AfterProbe(func.params)
               /\ log' = Append(log, LogEntry("probe", <<>>, first, "probe_ok", Len(instances) + 1))
               /\ UNCHANGED test_cases
          ELSE IF first.o # "raise"
          THEN /\ pc' = Fate(first, "none")
               /\ log' = Append(log, LogEntry("probe", <<>>, first, Fate(first, "none"), 0))
               /\ UNCHANGED <<instances, valid_instance, constructor_inputs, test_cases>>
          ELSE IF ~cls.described
          THEN /\ pc' = AfterFailedProbe(func.kind, func.params)
               /\ log' = Append(log, LogEntry("probe", <<>>, first, "no_instance", 0))
               /\ UNCHANGED <<instances, valid_instance, constructor_inputs, test_cases>>
          ELSE \E ci \in RandomInputs(cls.ctor_params) :
                 LET second == Construct(ci)
                 IN /\ constructor_inputs' = ci
                    /\ IF second.o = "return"
                       THEN /\ instances' = Append(instances, InitialData(ci))
                            /\ valid_instance' = Len(instances) + 1
                            /\ pc' = AfterProbe(func.params)
                            /\ log' = Append(Append(log, Retry(first)),
                                             LogEntry("probe", ci, second, "probe_ok",
                                                      Len(instances) + 1))
                            /\ UNCHANGED test_cases
                       ELSE IF second.o = "raise"
                       THEN /\ test_cases' = Append(test_cases,
                                 ClassMethodTestCase(ci, MethodName, <<>>, None,
                                                     second.kind, FALSE))
                            /\ pc' = AfterFailedProbe(func.kind, func.params)
                            /\ log' = Append(Append(log, Retry(first)),
                                             LogEntry("probe", ci, second, "probe_failed", 0))
                            /\ UNCHANGED <<instances, valid_instance>>
                       ELSE /\ pc' = Fate(second, "none")
                            /\ log' = Append(Append(log, Retry(first)),
                                             LogEntry("probe", ci, second, Fate(second, "none"), 0))
                            /\ UNCHANGED <<instances, valid_instance, test_cases>>
    /\ UNCHANGED <<func, cls, num_cases, IS_WINDOWS, idx, edge_i, rand_i, used_inputs,
                   sigalrm, ca_vars, pure_vars, run_vars>>

\* Mutant of FreshInstance: the instance built while probing is the receiver.
ReusedInstance(heap, ctor_inputs) == [id |-> valid_instance, heap |-> heap]

\* `instance = cls(*constructor_inputs)`: the receiver of one case.
FreshInstance(heap, ctor_inputs) ==
    [id |-> Len(heap) + 1, heap |-> Append(heap, InitialData(ctor_inputs))]

\* The body of the inner try of one method case: construct the receiver
\* (instance methods only), look the member up and call it.
InvokeMethod(method_type, inputs) ==
    IF method_type = "methods"
    THEN LET c == Construct(constructor_inputs)
         IN IF c.o # "return"
            THEN [outcome |-> c, expected |-> None, heap |-> instances, receiver |-> 0,
                  args |-> inputs]
            ELSE LET inst == FreshInstance(instances, constructor_inputs)
                     m == Call(func.fault, inputs)
                 IN IF m.o = "return"
                    THEN [outcome |-> m,
                          expected |-> MethodResult(inst.heap[inst.id], AfterCall(inputs)),
                          heap |-> [inst.heap EXCEPT ![inst.id] = MethodMutation(@)],
                          receiver |-> inst.id, args |-> AfterCall(inputs)]
                    ELSE [outcome |-> m, expected |-> None, heap |-> inst.heap,
                          receiver |-> inst.id, args |-> AfterCall(inputs)]
    ELSE [outcome |-> Call(func.fault, inputs), expected |-> FuncResult(AfterCall(inputs)),
          heap |-> instances, receiver |-> 0, args |-> AfterCall(inputs)]

\* `if not param_names:` - the single no-argument case.
MethodNoArgs ==
    /\ func.kind \in MethodTypes /\ pc = "noargs"
    /\ LET r == InvokeMethod(func.kind, <<>>)
           fate == Fate(r.outcome, Armed("timeout_handler"))
       IN /\ test_cases' = AppendCase(test_cases, fate,
                               MethodCase(<<>>, r.expected, "None"),
                               MethodCase(<<>>, None, r.outcome.kind))
          /\ log' = Append(log, LogEntry("noargs", <<>>, r.outcome, fate, r.receiver))
          /\ pc' = PcAfter(fate, "done")
          /\ instances' = r.heap
    /\ sigalrm' = Installed("timeout_handler")
    /\ UNCHANGED <<func, cls, num_cases, IS_WINDOWS, idx, edge_i, rand_i, used_inputs,
                   constructor_inputs, valid_instance, ca_vars, pure_vars, run_vars>>

\* One iteration of the method's boundary sweep.
MethodEdgeCase ==
    /\ func.kind \in MethodTypes /\ pc = "edge"
    /\ LET edge_value == get_edge_cases_for_type(func.params[idx])[edge_i]
           adv == EdgeAdvance(func.params)
       IN \E inputs \in EdgeInputs(func.params, idx, edge_value) :
            IF IsDuplicate(inputs, used_inputs)
            THEN /\ log' = Append(log, LogEntry("edge", inputs, NotInvoked, "deduped", 0))
                 /\ pc' = adv.pc
                 /\ UNCHANGED <<test_cases, used_inputs, instances, sigalrm>>
            ELSE LET r == InvokeMethod(func.kind, inputs)
                     fate == Fate(r.outcome, Armed("timeout_handler"))
                 IN /\ used_inputs' = Append(used_inputs, Shared(inputs, r.args))
                    /\ test_cases' = AppendCase(test_cases, fate,
                                         MethodCase(Shared(inputs, r.args), r.expected, "None"),
                                         MethodCase(Shared(inputs, r.args), None, r.outcome.kind))
                    /\ log' = Append(log, LogEntry("edge", inputs, r.outcome, fate, r.receiver))
                    /\ pc' = PcAfter(fate, adv.pc)
                    /\ instances' = r.heap
                    /\ sigalrm' = Installed("timeout_handler")
    /\ idx' = EdgeAdvance(func.params).idx
    /\ edge_i' = EdgeAdvance(func.params).edge_i
    /\ UNCHANGED <<func, cls, num_cases, IS_WINDOWS, rand_i,
                   constructor_inputs, valid_instance, ca_vars, pure_vars, run_vars>>

\* One iteration of the method's random loop.
MethodRandomCase ==
    /\ func.kind \in MethodTypes /\ pc = "random"
    /\ \E inputs \in RandomInputs(func.params) :
         IF IsDuplicate(inputs, used_inputs)
         THEN /\ log' = Append(log, LogEntry("random", inputs, NotInvoked, "deduped", 0))
              /\ pc' = RandomAdvance
              /\ UNCHANGED <<test_cases, used_inputs, instances, sigalrm>>
         ELSE LET r == InvokeMethod(func.kind, inputs)
                  fate == Fate(r.outcome, Armed("timeout_handler"))
              IN /\ used_inputs' = Append(used_inputs, Shared(inputs, r.args))
                 /\ test_cases' = AppendCase(test_cases, fate,
                                      MethodCase(Shared(inputs, r.args), r.expected, "None"),
                                      MethodCase(Shared(inputs, r.args), None, r.outcome.kind))
                 /\ log' = Append(log, LogEntry("random", inputs, r.outcome, fate, r.receiver))
                 /\ pc' = PcAfter(fate, RandomAdvance)
                 /\ instances' = r.heap
                 /\ sigalrm' = Installed("timeout_handler")
    /\ rand_i' = rand_i + 1
    /\ UNCHANGED <<func, cls, num_cases, IS_WINDOWS, idx, edge_i,
                   constructor_inputs, valid_instance, ca_vars, pure_vars, run_vars>>

----------------------------------------------------------------------------
(* _generate_property_getter_test_cases / _generate_property_setter_test_cases *)

\* The instance probe shared by both property generators: as for methods,
\* but a failed second construction returns the empty list, and a class
\* description without a constructor leaves valid_instance at None.
PropertyProbe ==
    /\ func.kind \in {"getter", "setter"} /\ pc = "probe"
    /\ LET first == Construct(<<>>)
           next == IF func.kind = "getter" THEN "getter" ELSE "edge"
       IN IF first.o = "return"
          THEN /\ instances' = Append(instances, InitialData(<<>>))
               /\ valid_instance' = Len(instances) + 1
               /\ constructor_inputs' = <<>>
               /\ pc' = next
               /\ log' = Append(log, LogEntry("probe", <<>>, first, "probe_ok", Len(instances) + 1))
          ELSE IF first.o # "raise"
          THEN /\ pc' = Fate(first, "none")
               /\ log' = Append(log, LogEntry("probe", <<>>, first, Fate(first, "none"), 0))
               /\ UNCHANGED <<instances, valid_instance, constructor_inputs>>
          ELSE IF ~cls.described
          THEN /\ pc' = next
               /\ log' = Append(log, LogEntry("probe", <<>>, first, "no_instance", 0))
               /\ UNCHANGED <<instances, valid_instance, constructor_inputs>>
          ELSE \E ci \in RandomInputs(cls.ctor_params) :
                 LET second == Construct(ci)
                 IN /\ constructor_inputs' = ci
                    /\ IF second.o = "return"
                       THEN /\ instances' = Append(instances, InitialData(ci))
                            /\ valid_instance' = Len(instances) + 1
                            /\ pc' = next
                            /\ log' = Append(Append(log, Retry(first)),
                                             LogEntry("probe", ci, second, "probe_ok",
                                                      Len(instances) + 1))
                       ELSE IF second.o = "raise"
                       THEN /\ pc' = "done"
                            /\ log' = Append(Append(log, Retry(first)),
                                             LogEntry("probe", ci, second, "probe_failed", 0))
                            /\ UNCHANGED <<instances, valid_instance>>
                       ELSE /\ pc' = Fate(second, "none")
                            /\ log' = Append(Append(log, Retry(first)),
                                             LogEntry("probe", ci, second, Fate(second, "none"), 0))
                            /\ UNCHANGED <<instances, valid_instance>>
    /\ UNCHANGED <<func, cls, num_cases, IS_WINDOWS, idx, edge_i, rand_i, used_inputs,
                   test_cases, sigalrm, ca_vars, pure_vars, run_vars>>

\* `expected_output = getattr(valid_instance, prop_name)`: the single getter case,
\* read on the probe instance; reading a property of None raises AttributeError.
GetterCase ==
    /\ func.kind = "getter" /\ pc = "getter"
    /\ LET outcome == IF valid_instance = 0
                      THEN [o |-> "raise", kind |-> "AttributeError"]
                      ELSE Call(func.fault, <<>>)
           fate == Fate(outcome, Armed("timeout_handler"))
           value == IF valid_instance = 0 THEN None ELSE instances[valid_instance]
       IN /\ test_cases' = AppendCase(test_cases, fate,
                 ClassMethodTestCase(constructor_inputs, GetterName, <<>>,
                                     value, "None", TRUE),
                 ClassMethodTestCase(constructor_inputs, GetterName, <<>>,
                                     None, outcome.kind, TRUE))
          /\ log' = Append(log, LogEntry("getter", <<>>, outcome, fate, valid_instance))
          /\ pc' = PcAfter(fate, "done")
    /\ sigalrm' = Installed("timeout_handler")
    /\ UNCHANGED <<func, cls, num_cases, IS_WINDOWS, idx, edge_i, rand_i, used_inputs,
                   constructor_inputs, valid_instance, instances, ca_vars, pure_vars, run_vars>>

\* Mutant of ReadAfterWrite: the setter's own return value is recorded.
SetterReturnValue(stored, returned) == returned

\* `expected_output = getattr(instance, prop_name)` after the write: what a
\* setter case records, given the data read back and the setter's own return.
ReadAfterWrite(stored, returned) == stored

\* The body of the inner try of one setter case: a fresh instance, the write
\* through the setter, the read back through the getter.
InvokeSetter(value) ==
    LET c == Construct(constructor_inputs)
    IN IF c.o # "return"
       THEN [outcome |-> c, expected |-> None, heap |-> instances, receiver |-> 0]
       ELSE LET inst == FreshInstance(instances, constructor_inputs)
                w == Call(func.fault, <<value>>)
            IN IF w.o = "return"
               THEN [outcome |-> w,
                     expected |-> ReadAfterWrite(SetterStores(value), SetterReturns(value)),
                     heap |-> [inst.heap EXCEPT ![inst.id] = SetterStores(value)],
                     receiver |-> inst.id]
               ELSE [outcome |-> w, expected |-> None, heap |-> inst.heap,
                     receiver |-> inst.id]

SetterCase(value, expected_output, raises) ==
    ClassMethodTestCase(constructor_inputs, SetterName, <<value>>, expected_output,
                        raises, FALSE)

\* Processing of one setter candidate, shared by the boundary and random loops.
\* used_inputs holds the bare values in the code and one-element tuples here.
SetterCandidate(phase, value, nextpc) ==
    IF IsDuplicate(<<value>>, used_inputs)
    THEN /\ log' = Append(log, LogEntry(phase, <<value>>, NotInvoked, "deduped", 0))
         /\ pc' = nextpc
         /\ UNCHANGED <<test_cases, used_inputs, instances, sigalrm>>
    ELSE LET r == InvokeSetter(value)
             fate == Fate(r.outcome, Armed("timeout_handler"))
         IN /\ used_inputs' = Append(used_inputs, <<value>>)
            /\ test_cases' = AppendCase(test_cases, fate,
                                 SetterCase(value, r.expected, "None"),
                                 SetterCase(value, None, r.outcome.kind))
            /\ log' = Append(log, LogEntry(phase, <<value>>, r.outcome, fate, r.receiver))
            /\ pc' = PcAfter(fate, nextpc)
            /\ instances' = r.heap
            /\ sigalrm' = Installed("timeout_handler")

\* One iteration of `for value in edge_values`.
SetterEdgeCase ==
    /\ func.kind = "setter" /\ pc = "edge"
    /\ SetterCandidate("edge", get_edge_cases_for_type(func.params[1])[edge_i],
                       EdgeAdvance(func.params).pc)
    /\ idx' = EdgeAdvance(func.params).idx
    /\ edge_i' = EdgeAdvance(func.params).edge_i
    /\ UNCHANGED <<func, cls, num_cases, IS_WINDOWS, rand_i,
                   constructor_inputs, valid_instance, ca_vars, pure_vars, run_vars>>

\* One iteration of the setter's random loop.
SetterRandomCase ==
    /\ func.kind = "setter" /\ pc = "random"
    /\ \E value \in _generate_value_for_type(func.params[1]) :
         SetterCandidate("random", value, RandomAdvance)
    /\ rand_i' = rand_i + 1
    /\ UNCHANGED <<func, cls, num_cases, IS_WINDOWS, idx, edge_i,
                   constructor_inputs, valid_instance, ca_vars, pure_vars, run_vars>>

----------------------------------------------------------------------------
(* The generator's state machine *)

PropTypes == {<<"int">>, <<"bool">>, <<"Any">>}

\* The callables a run may be started on, with their classes.
Targets ==
    {[func |-> [kind |-> "function", params |-> p, fault |-> f], cls |-> NoClass] :
        p \in Signatures, f \in Faults}
    \cup
    {[func |-> [kind |-> "constructor", params |-> p, fault |-> f],
      cls |-> [ctor_params |-> p, ctor_fault |-> f, transform |-> "id", described |-> TRUE]] :
        p \in Signatures, f \in Faults}
    \cup
    {[func |-> [kind |-> "methods", params |-> p, fault |-> f],
      cls |-> [ctor_params |-> cp, ctor_fault |-> cf, transform |-> "id", described |-> TRUE]] :
        p \in Signatures, f \in Faults, cp \in CtorSignatures, cf \in Faults}
    \cup
    {[func |-> [kind |-> k, params |-> p, fault |-> f], cls |-> c] :
        k \in {"class_methods", "static_methods"}, p \in Signatures, f \in Faults,
        c \in {NoClass, FailingClass}}
    \cup
    {[func |-> [kind |-> "methods", params |-> p, fault |-> "none"], cls |-> UndescribedClass] :
        p \in Signatures}
    \cup
    {[func |-> [kind |-> "getter", params |-> <<>>, fault |-> f], cls |-> UndescribedClass] :
        f \in {"none", "raise"}}
    \cup
    {[func |-> [kind |-> "setter", params |-> p, fault |-> "none"], cls |-> UndescribedClass] :
        p \in PropTypes}
    \cup
    {[func |-> [kind |-> "getter", params |-> <<>>, fault |-> f],
      cls |-> [ctor_params |-> cp, ctor_fault |-> cf, transform |-> "id", described |-> TRUE]] :
        f \in Faults, cp \in CtorSignatures, cf \in Faults}
    \cup
    {[func |-> [kind |-> "setter", params |-> p, fault |-> f],
      cls |-> [ctor_params |-> cp, ctor_fault |-> cf, transform |-> tr, described |-> TRUE]] :
        p \in PropTypes, f \in Faults, cp \in CtorSignatures, cf \in Faults,
        tr \in Transforms}

\* Where each generator starts once its local variables are set up.
StartPc(f, n) ==
    CASE f.kind = "function" ->
            IF f.params = <<>> THEN (IF n > 0 THEN "random" ELSE "done") ELSE "edge"
      [] f.kind = "constructor" -> IF f.params = <<>> THEN "noargs" ELSE "edge"
      [] f.kind \in {"class_methods", "static_methods"} -> AfterProbe(f.params)
      [] OTHER -> "probe"

EmptyClassInfo ==
    [methods |-> <<>>, properties |-> <<>>, class_methods |-> <<>>,
     static_methods |-> <<>>, special_methods |-> <<>>, constructor |-> <<>>]

\* The shape of the object handed to analyze_class: a class has a __name__
\* and __bases__ whose members are classes in turn.
ClassArg ==
    [has_name |-> TRUE, has_bases |-> TRUE, named_bases |-> TRUE, sound_bases |-> TRUE]

\* analyze_class has not returned.
NoReturn == [o |-> "none", kind |-> "None", keys |-> {}]

CAIdle ==
    /\ hierarchy = <<>> /\ ns = <<>> /\ bases = <<>>
    /\ ca_pc = "idle" /\ ca_i = 0
    /\ class_info = EmptyClassInfo
    /\ processed_methods = {} /\ processed_properties = {}
    /\ arg = ClassArg /\ ca_return = NoReturn

\* _generate_value_for_type has not been applied.
NoSynthesis ==
    [done |-> FALSE, edge_cases |-> <<>>, generator |-> "None", o |-> "none", value |-> None,
     inputs |-> <<>>, depth |-> 0, ctor_inputs |-> <<>>]

\* No pure function is being applied.
PureIdle ==
    /\ eq_inputs1 = <<>> /\ eq_inputs2 = <<>> /\ eq_result = "idle"
    /\ vs_param_type = "Any" /\ vs_class_type = "None" /\ vs_result = NoSynthesis

\* No earlier run to compare with.
NoRun == [done |-> FALSE, log |-> <<>>, test_cases |-> <<>>, pc |-> "none"]

\* The random source is not pinned: every draw is free.
\* generate_pytest_file is not rendering.
PGIdle ==
    /\ class_test_cases = <<>> /\ content = <<>> /\ mock_functions = {}
    /\ valid_constructor_inputs = <<>> /\ pg_pc = "idle" /\ pg_i = 1

RunIdle == seed = <<>> /\ first_run = NoRun /\ PGIdle

InitGeneratorOn(targets) ==
    /\ \E t \in targets : func = t.func /\ cls = t.cls
    /\ num_cases \in 1..MaxNumCases
    /\ IS_WINDOWS \in BOOLEAN
    /\ pc = StartPc(func, num_cases)
    /\ idx = 1 /\ edge_i = 1 /\ rand_i = 0
    /\ test_cases = <<>> /\ used_inputs = <<>>
    /\ constructor_inputs = <<>> /\ valid_instance = 0
    /\ instances = <<>>
    /\ sigalrm = "SIG_DFL"
    /\ log = <<>>
    /\ CAIdle
    /\ PureIdle

InitGenerator == InitGeneratorOn(Targets)

Init == InitGenerator /\ RunIdle

Next ==
    \/ FuncEdgeCase
    \/ FuncRandomCase
    \/ CtorNoArgs
    \/ CtorEdgeCase
    \/ CtorRandomCase
    \/ MethodProbe
    \/ MethodNoArgs
    \/ MethodEdgeCase
    \/ MethodRandomCase
    \/ PropertyProbe
    \/ GetterCase
    \/ SetterEdgeCase
    \/ SetterRandomCase

Spec == Init /\ [][Next]_vars

\* The generator is sequential code: whenever a step is possible it is taken.
FairSpec == Init /\ [][Next]_vars /\ WF_vars(Next)

----------------------------------------------------------------------------
(* Vocabulary of the properties *)

Preemptive == ~IS_WINDOWS

CandidatePhases == {"noargs", "edge", "random", "getter"}

IsCandidate(e) == e.phase \in CandidatePhases

\* The log entries that put a case on the list, in order.
RecordedLog ==
    SelectSeq(log, LAMBDA e : \/ e.fate \in {"recorded_success", "recorded_failure"}
                              \/ (e.fate = "probe_failed" /\ func.kind = "methods"))


\* The case list is the recorded part of the log, in the same order.
CasesFollowLog ==
    /\ Len(test_cases) = Len(RecordedLog)
    /\ \A k \in 1..Len(RecordedLog) :
         IF RecordedLog[k].phase = "probe"
         THEN test_cases[k].constructor_inputs = RecordedLog[k].inputs
         ELSE CaseInputs(test_cases[k]) = RecordedLog[k].inputs

SomeDiscarded == \E k \in 1..Len(log) : log[k].fate = "discarded"

----------------------------------------------------------------------------
(* C1: the input tuples of the cases returned for a free function are      *)
(* pairwise non-equivalent under _are_functionally_equivalent.             *)
C1_FunctionInputsPairwiseNonEquivalent ==
    func.kind = "function" =>
        \A i, j \in 1..Len(test_cases) :
            i < j => ~_are_functionally_equivalent(test_cases[i].inputs,
                                                   test_cases[j].inputs)

----------------------------------------------------------------------------
(* C2: with preemptive timeouts, a function, method or property-accessor   *)
(* candidate whose invocation exceeds the deadline leaves no case (and no  *)
(* case of kind TimeoutException exists), the generator moves on to the    *)
(* next candidate, and it eventually returns its case list.                *)

TimeoutKinds == {"function", "methods", "class_methods", "static_methods",
                 "getter", "setter"}

C2_NoCaseOnTimeout ==
    (Preemptive /\ func.kind \in TimeoutKinds) =>
        /\ \A k \in 1..Len(log) :
             (IsCandidate(log[k]) /\ log[k].o = "hang") => log[k].fate = "discarded"
        /\ CasesFollowLog
        /\ \A k \in 1..Len(test_cases) : test_cases[k].raises # "TimeoutException"

C2_ProceedsToNext ==
    (Len(log') = Len(log) + 1 /\ log'[Len(log')].fate = "discarded") =>
        /\ test_cases' = test_cases
        /\ pc' \in {"edge", "random", "done"}
        /\ <<pc', idx', edge_i', rand_i'>> # <<pc, idx, edge_i, rand_i>>

C2_TimeoutSkippedAndContinues ==
    /\ []C2_NoCaseOnTimeout
    /\ [][C2_ProceedsToNext]_vars
    /\ (SomeDiscarded ~> (pc = "done"))

C2_Witness ==
    /\ pc = "done" /\ Preemptive
    /\ \E k \in 1..Len(log) :
         /\ log[k].fate = "discarded"
         /\ \E j \in (k + 1)..Len(log) : log[j].fate = "recorded_success"

----------------------------------------------------------------------------
(* C3: with preemptive timeouts, a constructor candidate (boundary or      *)
(* random) whose invocation exceeds the deadline is discarded with no      *)
(* case, the process keeps running and constructor synthesis continues.    *)
C3_CtorTimeoutDiscarded ==
    (Preemptive /\ func.kind = "constructor") =>
        /\ pc # "killed"
        /\ \A k \in 1..Len(log) :
             (log[k].phase \in {"edge", "random"} /\ log[k].o = "hang")
                 => log[k].fate = "discarded"

----------------------------------------------------------------------------
(* C4: every invoked candidate whose invocation raises an error of kind E  *)
(* (an exception of the ordinary error base, the timeout excepted) puts    *)
(* exactly one case on the list, with error kind E and null expected       *)
(* output; no case has both an error kind and an expected output.          *)
C4_ErrorCapture ==
    /\ CasesFollowLog
    /\ \A k \in 1..Len(log) :
         (IsCandidate(log[k]) /\ log[k].o = "raise") => log[k].fate = "recorded_failure"
    /\ \A k \in 1..Len(RecordedLog) :
         /\ RecordedLog[k].o = "raise" =>
                /\ test_cases[k].raises = RecordedLog[k].raised
                /\ test_cases[k].expected_output = None
         /\ RecordedLog[k].o = "return" => test_cases[k].raises = "None"
    /\ \A k \in 1..Len(test_cases) :
         test_cases[k].raises # "None" => test_cases[k].expected_output = None

C4_Witness ==
    /\ pc = "done"
    /\ \E k \in 1..Len(test_cases) :
         /\ test_cases[k].raises = "ValueError"
         /\ \E j \in 1..Len(test_cases) : test_cases[j].raises = "None"

----------------------------------------------------------------------------
(* C5: every instance-method case and every setter case invokes the member *)
(* on an instance constructed inside that case from the constructor        *)
(* inputs; the probe instance is never a receiver and no instance is the   *)
(* receiver of two cases, so a recorded expected output of a method that   *)
(* mutates instance data does not depend on the cases generated before.    *)

ReceiverLog == SelectSeq(log, LAMBDA e : IsCandidate(e) /\ e.receiver # 0)

C5_FreshInstancePerCase ==
    func.kind \in {"methods", "setter"} =>
        /\ \A k \in 1..Len(log) :
             (IsCandidate(log[k]) /\ log[k].o \in {"return", "raise", "hang"}
                 /\ Construct(constructor_inputs).o = "return") => log[k].receiver # 0
        /\ \A k \in 1..Len(ReceiverLog) :
             /\ ReceiverLog[k].receiver # valid_instance
             /\ \A j \in 1..Len(ReceiverLog) :
                  j # k => ReceiverLog[j].receiver # ReceiverLog[k].receiver
        /\ func.kind = "methods" =>
             \A k \in 1..Len(test_cases) :
                 (test_cases[k].raises = "None") =>
                     test_cases[k].expected_output =
                         MethodResult(InitialData(test_cases[k].constructor_inputs),
                                      test_cases[k].method_inputs)

C5_Witness ==
    /\ func.kind = "methods" /\ pc = "done"
    /\ Len(constructor_inputs) = 1
    /\ \E i, j \in 1..Len(test_cases) :
         i < j /\ test_cases[i].raises = "None" /\ test_cases[j].raises = "None"

----------------------------------------------------------------------------
(* C6: a non-erroring setter case with input x records the value read back *)
(* through the getter on the same fresh instance after the write (x itself *)
(* when the accessors do not transform), never the setter's return value,  *)
(* and its member inputs are exactly [x].                                  *)
C6_SetterRoundTrip ==
    func.kind = "setter" =>
        /\ CasesFollowLog
        /\ \A k \in 1..Len(RecordedLog) :
             LET e == RecordedLog[k]
                 c == test_cases[k]
             IN e.o = "return" =>
                  /\ Len(e.inputs) = 1
                  /\ c.method_inputs = e.inputs
                  /\ c.method_name = SetterName
                  /\ e.receiver # 0 /\ e.receiver # valid_instance
                  /\ c.expected_output = instances[e.receiver]
                  /\ c.expected_output = SetterStores(e.inputs[1])
                  /\ cls.transform = "id" => c.expected_output = e.inputs[1]

C6_Witness ==
    /\ func.kind = "setter" /\ pc = "done"
    /\ \E k \in 1..Len(test_cases) :
         /\ test_cases[k].method_inputs = <<PyInt(-100)>>
         /\ test_cases[k].expected_output = PyInt(100)
    /\ \E k \in 1..Len(test_cases) : test_cases[k].method_inputs = <<PyInt(7)>>

----------------------------------------------------------------------------
(* C7: all boundary-sweep cases precede all random cases; the sweep is     *)
(* swept-parameter-major, boundary-value-minor along the type's boundary   *)
(* sequence; a one-parameter integer function with no timeouts is invoked  *)
(* on 0, 1, -1, 100, -100 in that order before any random candidate.       *)

\* The boundary sequences of section 4.1.
BoundarySequence(ty) ==
    CASE ty = "int"  -> <<PyInt(0), PyInt(1), PyInt(-1), PyInt(100), PyInt(-100)>>
      [] ty = "bool" -> <<PyBool(TRUE), PyBool(FALSE)>>
      [] OTHER       -> <<None>>

RECURSIVE SweepFrom(_, _)
SweepFrom(params, i) ==
    IF i > Len(params) THEN <<>>
    ELSE [k \in 1..Len(BoundarySequence(params[i])) |->
              <<i, BoundarySequence(params[i])[k]>>] \o SweepFrom(params, i + 1)

SweepLog == SelectSeq(log, LAMBDA e : e.phase \in {"edge", "random"})

EdgeLog == SelectSeq(log, LAMBDA e : e.phase = "edge")

C7_BoundaryBeforeRandomInOrder ==
    LET sweep == SweepFrom(func.params, 1)
    IN /\ \A k \in 1..Len(SweepLog) :
            SweepLog[k].phase = "random" =>
                /\ \A j \in k..Len(SweepLog) : SweepLog[j].phase = "random"
                /\ func.params # <<>> => Len(EdgeLog) = Len(sweep)
       /\ Len(EdgeLog) <= Len(sweep)
       /\ \A k \in 1..Len(EdgeLog) :
            <<EdgeLog[k].param, EdgeLog[k].inputs[EdgeLog[k].param]>> = sweep[k]
       /\ CasesFollowLog
       /\ (func.kind = "function" /\ func.params = <<"int">> /\ ~SomeDiscarded) =>
            \A k \in 1..Len(log) :
                /\ k = 1 => log[k].inputs = <<PyInt(0)>>
                /\ k = 2 => log[k].inputs = <<PyInt(1)>>
                /\ k = 3 => log[k].inputs = <<PyInt(-1)>>
                /\ k = 4 => log[k].inputs = <<PyInt(100)>>
                /\ k = 5 => log[k].inputs = <<PyInt(-100)>>
                /\ k <= 5 <=> log[k].phase = "edge"
                /\ log[k].o # "skip"

C7_Witness ==
    /\ func.kind = "function" /\ func.params = <<"int">> /\ pc = "done"
    /\ ~SomeDiscarded
    /\ Len(log) >= 6 /\ log[6].phase = "random"
    /\ Len(test_cases) = Len(log)

----------------------------------------------------------------------------
(* ClassAnalyzer (class_analyzer.py)                                       *)
(* Classes are numbered; class 1 is the class handed to analyze_class and  *)
(* 0 stands for the universal root `object`.  ns[c][n] is the kind of the  *)
(* attribute that class c declares under name n in its own namespace.      *)

RegularNames == {"run"}
DunderNames == {"__str__"}
MemberNames == RegularNames \cup DunderNames
AllNames == MemberNames \cup {"__init__"}

RegularKinds == {"absent", "function", "staticmethod", "classmethod", "property"}
DunderKinds == {"absent", "function"}
InitKinds == {"absent", "function"}

\* The __bases__ of the hierarchies analyzed.
Hierarchies ==
    { <<<<2>>, <<>>>>,
      <<<<2>>, <<3>>, <<>>>>,
      <<<<2, 3>>, <<>>, <<>>>> }

Namespaces(n) ==
    [1..n -> {f \in [AllNames -> RegularKinds] :
                 /\ f["__str__"] \in DunderKinds
                 /\ f["__init__"] \in InitKinds}]

RECURSIVE _get_class_hierarchy(_)
_get_class_hierarchy(c) ==
    LET RECURSIVE Extend(_, _)
        Extend(h, k) ==
            IF k > Len(bases[c]) THEN h
            ELSE Extend(h \o _get_class_hierarchy(bases[c][k]), k + 1)
    IN Extend(<<c>>, 1)

\* Python's method resolution order (C3 linearization), which getattr,
\* hasattr and inspect.getmembers follow.
InTail(h, q) == \E k \in 2..Len(q) : q[k] = h

RECURSIVE Merge(_)
Merge(seqs) ==
    LET ne == SelectSeq(seqs, LAMBDA q : q # <<>>)
    IN IF ne = <<>> THEN <<>>
       ELSE LET good(k) == \A j \in 1..Len(ne) : ~InTail(ne[k][1], ne[j])
                k0 == CHOOSE k \in 1..Len(ne) : good(k) /\ \A j \in 1..(k - 1) : ~good(j)
                h == ne[k0][1]
            IN <<h>> \o Merge([j \in 1..Len(ne) |->
                                  IF ne[j][1] = h THEN Tail(ne[j]) ELSE ne[j]])

RECURSIVE Mro(_)
Mro(c) == <<c>> \o Merge([k \in 1..Len(bases[c]) |-> Mro(bases[c][k])] \o <<bases[c]>>)

\* The class whose namespace getattr(c, n) finds n in (0: none, or object).
Owner(c, n) ==
    LET m == Mro(c)
        hits == {k \in 1..Len(m) : ns[m[k]][n] # "absent"}
    IN IF hits = {} THEN 0
       ELSE m[CHOOSE k \in hits : \A j \in hits : k <= j]

\* The kind of attribute getattr(c, n) resolves to.
Resolved(c, n) == IF Owner(c, n) = 0 THEN "absent" ELSE ns[Owner(c, n)][n]

\* inspect.getmembers(cls, predicate=inspect.isfunction): a static method
\* looked up on the class is a plain function, a class method is a bound method.
FunctionMembers(c) == {n \in AllNames : Resolved(c, n) \in {"function", "staticmethod"}}

\* inspect.getmembers(cls, predicate=lambda x: isinstance(x, property))
PropertyMembers(c) == {n \in AllNames : Resolved(c, n) = "property"}

Descriptor(defined_in, sig_of, kind) ==
    [defined_in |-> defined_in, sig_of |-> sig_of, kind |-> kind]

\* dict[name] = descriptor, for every name of `new`.
PutAll(dict, new) ==
    [n \in (DOMAIN dict) \cup (DOMAIN new) |-> IF n \in DOMAIN new THEN new[n] ELSE dict[n]]

IsDunder(n) == n \in DunderNames \cup {"__init__"}

\* One call of _identify_special_method_types(current_cls, ...).
IdentifySpecialMethodTypes ==
    /\ ca_pc = "pass1"
    /\ LET c == hierarchy[ca_i]
           fresh == {n \in AllNames : n \notin processed_methods}
           statics == {n \in fresh : ns[c][n] = "staticmethod"}
           classms == {n \in fresh : ns[c][n] = "classmethod"}
       IN /\ processed_methods' = processed_methods \cup statics \cup classms
          /\ class_info' =
               [class_info EXCEPT
                  !.static_methods =
                      PutAll(@, [n \in statics |-> Descriptor(c, c, "staticmethod")]),
                  !.class_methods =
                      PutAll(@, [n \in classms |-> Descriptor(c, c, "classmethod")])]
    /\ IF ca_i < Len(hierarchy)
       THEN ca_i' = ca_i + 1 /\ ca_pc' = "pass1"
       ELSE ca_i' = 1 /\ ca_pc' = "pass2"
    /\ UNCHANGED <<hierarchy, ns, bases, processed_properties, arg, ca_return,
                   gen_vars, pure_vars, run_vars>>

\* One call of _analyze_class_members(current_cls, ...).
AnalyzeClassMembers ==
    /\ ca_pc = "pass2"
    /\ LET c == hierarchy[ca_i]
           funcs == {n \in FunctionMembers(c) : n \notin processed_methods}
           special == {n \in funcs : IsDunder(n) /\ n # "__init__"}
           regular == {n \in funcs : ~IsDunder(n)}
           props == {n \in PropertyMembers(c) : n \notin processed_properties}
           desc(n) == Descriptor(c, Owner(c, n), Resolved(c, n))
       IN /\ processed_methods' = processed_methods \cup funcs
          /\ processed_properties' = processed_properties \cup props
          /\ class_info' =
               [class_info EXCEPT
                  !.constructor =
                      IF "__init__" \in DOMAIN @ THEN @
                      ELSE PutAll(@, [n \in {"__init__"} |-> desc(n)]),
                  !.special_methods = PutAll(@, [n \in special |-> desc(n)]),
                  !.methods = PutAll(@, [n \in regular |-> desc(n)]),
                  !.properties = PutAll(@, [n \in props |-> desc(n)])]
    /\ IF ca_i < Len(hierarchy)
       THEN ca_i' = ca_i + 1 /\ ca_pc' = "pass2"
       ELSE ca_i' = ca_i /\ ca_pc' = "done"
    /\ UNCHANGED <<hierarchy, ns, bases, arg, ca_return, gen_vars, pure_vars, run_vars>>

GenIdle ==
    /\ func = [kind |-> "none", params |-> <<>>, fault |-> "none"]
    /\ cls = NoClass
    /\ num_cases = 0 /\ IS_WINDOWS = FALSE
    /\ pc = "idle" /\ idx = 1 /\ edge_i = 1 /\ rand_i = 0
    /\ test_cases = <<>> /\ used_inputs = <<>>
    /\ constructor_inputs = <<>> /\ valid_instance = 0
    /\ instances = <<>> /\ sigalrm = "SIG_DFL" /\ log = <<>>

\* analyze_class up to the computation of class_hierarchy.
InitCA ==
    /\ bases \in Hierarchies
    /\ ns \in Namespaces(Len(bases))
    /\ hierarchy = _get_class_hierarchy(1)
    /\ ca_pc = "pass1" /\ ca_i = 1
    /\ class_info = EmptyClassInfo
    /\ processed_methods = {} /\ processed_properties = {}
    /\ arg = ClassArg /\ ca_return = NoReturn
    /\ GenIdle
    /\ PureIdle
    /\ RunIdle

NextCA ==
    \/ IdentifySpecialMethodTypes
    \/ AnalyzeClassMembers

SpecCA == InitCA /\ [][NextCA]_vars

----------------------------------------------------------------------------
(* Vocabulary of the analyzer's properties *)

Categories == {"methods", "class_methods", "static_methods", "properties",
               "special_methods"}

\* The category a definition of the given kind belongs to.
CategoryOf(n, kind) ==
    CASE kind = "staticmethod" -> "static_methods"
      [] kind = "classmethod"  -> "class_methods"
      [] kind = "property"     -> "properties"
      [] kind = "function"     -> IF IsDunder(n) THEN "special_methods" ELSE "methods"

\* The most-derived class of the analyzed hierarchy that declares n.
MostDerived(n) == Owner(1, n)

----------------------------------------------------------------------------
(* C8: in the description returned by analyze_class a member name appears  *)
(* in at most one of methods, class_methods, static_methods, properties    *)
(* and special_methods.                                                    *)
C8_OneCategoryPerName ==
    \A a, b \in Categories :
        a # b => (DOMAIN class_info[a]) \cap (DOMAIN class_info[b]) = {}

----------------------------------------------------------------------------
(* C9: the defined_in of every recorded member, and of the constructor,    *)
(* names the most-derived class of the hierarchy whose own namespace       *)
(* declares it; an inherited member is attributed to the declaring base.   *)
(* Stated for the descriptors that carry the most-derived definition, so   *)
(* that a wrongly categorised member does not count against attribution.   *)
C9_DefinedInMostDerived ==
    ca_pc = "done" =>
        /\ \A a \in Categories : \A n \in DOMAIN class_info[a] :
             class_info[a][n].sig_of = MostDerived(n) =>
                 class_info[a][n].defined_in = MostDerived(n)
        /\ MostDerived("__init__") # 0 =>
             class_info.constructor["__init__"].defined_in = MostDerived("__init__")

----------------------------------------------------------------------------
(* C10: the category and signature recorded for a member are those of its  *)
(* most-derived definition; a name redefined as an ordinary instance       *)
(* method over a static or class-bound method of a base is recorded as an  *)
(* instance method of the derived class.                                   *)
C10_CategoryOfMostDerived ==
    ca_pc = "done" =>
        \A n \in RegularNames :
            Resolved(1, n) # "absent" =>
                LET cat == CategoryOf(n, Resolved(1, n))
                IN /\ n \in DOMAIN class_info[cat]
                   /\ class_info[cat][n].sig_of = MostDerived(n)
                   /\ \A other \in Categories \ {cat} : n \notin DOMAIN class_info[other]

----------------------------------------------------------------------------
(* analyze_class: the try block, its handler and the return                 *)

\* Objects analyze_class may be handed: classes, objects without __name__
\* (42, None), objects with a __name__ but no __bases__ (functions, modules),
\* and objects whose __bases__ hold something that has no __bases__: either
\* something with a __name__ (a function) or something without (42, None).
ArgShapes ==
    {a \in [has_name : BOOLEAN, has_bases : BOOLEAN, named_bases : BOOLEAN,
            sound_bases : BOOLEAN] :
        /\ a.sound_bases => (a.has_name /\ a.has_bases /\ a.named_bases)
        /\ ~a.has_bases => a.named_bases}

\* The class hierarchies analysed from the entry of analyze_class.
EntryHierarchies == { <<<<2>>, <<>>>> }

\* The keys of the dictionary built at the top of the try block.
DescriptionKeys ==
    {"name", "methods", "properties", "class_methods", "static_methods",
     "special_methods", "base_classes"}

\* The keys of class_info as it stands.
ClassInfoKeys ==
    DescriptionKeys \cup (IF "__init__" \in DOMAIN class_info.constructor
                          THEN {"constructor"} ELSE {})

\* The try block up to `class_hierarchy = _get_class_hierarchy(cls)`:
\* cls.__name__, then cls.__bases__ and base.__name__ inside the dictionary
\* literal (a failure there leaves class_info unbound), then the recursion.
AnalyzeClassTry ==
    /\ ca_pc = "try"
    /\ IF ~arg.has_name \/ ~arg.has_bases \/ ~arg.named_bases
       THEN ca_pc' = "except_unbound" /\ UNCHANGED <<hierarchy, ca_i>>
       ELSE IF ~arg.sound_bases
       THEN ca_pc' = "except_bound" /\ UNCHANGED <<hierarchy, ca_i>>
       ELSE /\ hierarchy' = _get_class_hierarchy(1)
            /\ ca_i' = 1
            /\ ca_pc' = "pass1"
    /\ UNCHANGED <<ns, bases, class_info, processed_methods, processed_properties,
                   arg, ca_return, gen_vars, pure_vars, run_vars>>

\* `except Exception as e:` - the log line reads cls.__name__ again, then
\* class_info is returned if it was bound, the minimal structure otherwise.
AnalyzeClassExcept ==
    /\ ca_pc \in {"except_unbound", "except_bound"}
    /\ IF ~arg.has_name
       THEN /\ ca_return' = [o |-> "raise", kind |-> "AttributeError", keys |-> {}]
            /\ ca_pc' = "raised"
       ELSE /\ ca_return' =
                 [o |-> "return", kind |-> "None",
                  keys |-> IF ca_pc = "except_bound" THEN ClassInfoKeys
                           ELSE DescriptionKeys \cup {"error"}]
            /\ ca_pc' = "recovered"
    /\ UNCHANGED <<hierarchy, ns, bases, ca_i, class_info, processed_methods,
                   processed_properties, arg, gen_vars, pure_vars, run_vars>>

\* `return class_info` at the end of the try block.
AnalyzeClassReturn ==
    /\ ca_pc = "done"
    /\ ca_return' = [o |-> "return", kind |-> "None", keys |-> ClassInfoKeys]
    /\ ca_pc' = "returned"
    /\ UNCHANGED <<hierarchy, ns, bases, ca_i, class_info, processed_methods,
                   processed_properties, arg, gen_vars, pure_vars, run_vars>>

InitAC ==
    /\ arg \in ArgShapes
    /\ IF arg = ClassArg
       THEN bases \in EntryHierarchies /\ ns \in Namespaces(Len(bases))
       ELSE bases = <<>> /\ ns = <<>>
    /\ hierarchy = <<>>
    /\ ca_pc = "try" /\ ca_i = 0
    /\ class_info = EmptyClassInfo
    /\ processed_methods = {} /\ processed_properties = {}
    /\ ca_return = NoReturn
    /\ GenIdle
    /\ PureIdle
    /\ RunIdle

NextAC ==
    \/ AnalyzeClassTry
    \/ IdentifySpecialMethodTypes
    \/ AnalyzeClassMembers
    \/ AnalyzeClassReturn
    \/ AnalyzeClassExcept

SpecAC == InitAC /\ [][NextAC]_vars

----------------------------------------------------------------------------
(* C11: analyze_class never raises; whenever the analysis of its argument  *)
(* fails (also for an argument without a class name) it returns a          *)
(* description that holds a name, an error marker and the five member      *)
(* categories.                                                             *)
C11_AnalyzeClassNeverRaises ==
    /\ ca_return.o # "raise"
    /\ ca_pc = "recovered" =>
         ({"name", "error"} \cup Categories) \subseteq ca_return.keys

----------------------------------------------------------------------------
(* _are_functionally_equivalent applied to two tuples                       *)

EqScalars ==
    {PyInt(0), PyInt(1), PyBool(TRUE), PyStr("a"), PyStr("1"), None, Unprintable}

EqCollections ==
    {PyList(<<>>), PyTuple(<<>>), PyDict({}),
     PyList(<<PyInt(1)>>), PyTuple(<<PyBool(TRUE)>>), PyTuple(<<PyInt(1)>>),
     PyList(<<PyStr("1")>>),
     PyList(<<PyInt(1), PyInt(0)>>), PyTuple(<<PyInt(0), PyInt(1)>>),
     PyList(<<None>>), PyList(<<Unprintable>>), PyList(<<PyDict({})>>),
     PyDict({<<PyStr("k"), PyInt(1)>>}), PyDict({<<PyStr("k"), PyBool(TRUE)>>}),
     PyDict({<<PyStr("j"), PyInt(1)>>}),
     PyDict({<<PyInt(1), PyStr("a")>>}), PyDict({<<PyBool(TRUE), PyStr("a")>>}),
     PyDict({<<PyStr("k"), PyInt(1)>>, <<PyStr("j"), PyInt(0)>>}),
     PyDict({<<PyStr("j"), PyInt(0)>>, <<PyStr("k"), PyBool(TRUE)>>}),
     PyDict({<<PyStr("k"), Unprintable>>}),
     PyList(<<PyList(<<PyInt(1)>>)>>), PyList(<<PyTuple(<<PyBool(TRUE)>>)>>),
     PyDict({<<PyStr("k"), PyList(<<PyInt(1)>>)>>}),
     PyDict({<<PyStr("k"), PyTuple(<<PyInt(1)>>)>>})}

EqValues == EqScalars \cup EqCollections

\* The tuples compared: every tuple of at most one value and the pairs of scalars.
EqTuples ==
    {<<>>} \cup {<<x>> : x \in EqValues} \cup {<<x, y>> : x \in EqScalars, y \in EqScalars}

PyBoolean(b) == IF b THEN "True" ELSE "False"

ApplyEquivalence ==
    /\ eq_result = "unset"
    /\ eq_result' = PyBoolean(_are_functionally_equivalent(eq_inputs1, eq_inputs2))
    /\ UNCHANGED <<eq_inputs1, eq_inputs2, vs_param_type, vs_class_type, vs_result,
                   gen_vars, ca_vars, run_vars>>

InitEQ ==
    /\ eq_inputs1 \in EqTuples /\ eq_inputs2 \in EqTuples
    /\ eq_result = "unset"
    /\ vs_param_type = "Any" /\ vs_class_type = "None" /\ vs_result = NoSynthesis
    /\ GenIdle
    /\ CAIdle
    /\ RunIdle

NextEQ == ApplyEquivalence

SpecEQ == InitEQ /\ [][NextEQ]_vars

----------------------------------------------------------------------------
(* C12: _are_functionally_equivalent(A, B) is true exactly when A and B    *)
(* have the same length and are structurally equivalent position by        *)
(* position: scalars by value, ordered collections by length and members,  *)
(* mappings by key set and values, anything else by printable              *)
(* representation; it is false when a representation cannot be produced.   *)

\* Structural normal form: two printable values are equivalent exactly when
\* their normal forms are equal.
NormalScalar(x) == IF x.t = "str" THEN <<"text", x.v>> ELSE <<"number", x.v>>

RECURSIVE NormalForm(_)
NormalForm(x) ==
    CASE x.t \in {"int", "float", "bool", "str"} -> NormalScalar(x)
      [] x.t \in {"list", "tuple"} ->
            <<"ordered", [k \in 1..Len(x.v) |-> NormalForm(x.v[k])]>>
      [] x.t = "dict" ->
            <<"mapping", {<<NormalScalar(p[1]), NormalForm(p[2])>> : p \in x.v}>>
      [] OTHER -> <<"repr", x.t>>

RECURSIVE HasRepresentation(_)
HasRepresentation(x) ==
    CASE x.t \in {"list", "tuple"} -> \A k \in 1..Len(x.v) : HasRepresentation(x.v[k])
      [] x.t = "dict"   -> \A p \in x.v : HasRepresentation(p[2])
      [] OTHER          -> x # Unprintable

StructurallyEquivalent(a, b) ==
    /\ Len(a) = Len(b)
    /\ \A k \in 1..Len(a) :
         /\ NormalForm(a[k]) = NormalForm(b[k])
         /\ HasRepresentation(a[k])

C12_EquivalenceIsStructural ==
    eq_result \in {"True", "False"} =>
        (eq_result = "True" <=> StructurallyEquivalent(eq_inputs1, eq_inputs2))

C12_Witness ==
    /\ eq_inputs1 = <<PyList(<<PyTuple(<<PyBool(TRUE)>>)>>)>>
    /\ eq_inputs2 = <<PyList(<<PyList(<<PyInt(1)>>)>>)>>
    /\ eq_result = "True"

----------------------------------------------------------------------------
(* C13: for an instance method a no-argument construction comes first and  *)
(* a construction with synthesized arguments follows only if it failed; if *)
(* that fails too, exactly one case is recorded, with the error kind of    *)
(* the construction fault, the synthesized constructor inputs and empty    *)
(* member inputs, and no candidate of the method is invoked.  Class and    *)
(* static methods never construct and are generated regardless.            *)

ProbeLog == SelectSeq(log, LAMBDA e : e.phase = "probe")

CandidateLog == SelectSeq(log, IsCandidate)

C13_ConstructionFallback ==
    /\ func.kind = "methods" =>
         /\ Len(ProbeLog) <= 2
         /\ \A k \in 1..Len(log) : log[k].phase = "probe" => k <= 2
         /\ log # <<>> => log[1].phase = "probe" /\ log[1].inputs = <<>>
         /\ Len(ProbeLog) = 2 =>
              /\ log[1].o = "raise"
              /\ log[2].inputs \in RandomInputs(cls.ctor_params)
              /\ log[2].fate = "probe_failed" =>
                   /\ log[2].o = "raise"
                   /\ test_cases = <<ClassMethodTestCase(log[2].inputs, MethodName, <<>>,
                                                         None, log[2].raised, FALSE)>>
                   /\ CandidateLog = <<>>
                   /\ pc = "done"
    /\ func.kind \in {"class_methods", "static_methods"} =>
         /\ ProbeLog = <<>>
         /\ instances = <<>>
         /\ \A k \in 1..Len(log) : log[k].receiver = 0
         /\ pc = "done" => CandidateLog # <<>>

C13_Witness ==
    /\ func.kind = "methods"
    /\ Len(log) = 2 /\ log[2].fate = "probe_failed" /\ log[2].raised = "ValueError"
    /\ Len(test_cases) = 1 /\ test_cases[1].constructor_inputs # <<>>
    /\ pc = "done"

----------------------------------------------------------------------------
(* Value synthesis applied to one declared type                            *)

\* The signatures of a constructor with a parameter of its own class.
SelfTypedCtorSignatures == {<<"Acc">>, <<"int", "Acc">>}

\* The classes under test of the synthesis.
SynthClasses ==
    {[ctor_params |-> cp, ctor_fault |-> cf, transform |-> "id", described |-> TRUE] :
        cp \in CtorSignatures \cup SelfTypedCtorSignatures, cf \in Faults}
    \cup {UndescribedClass}

\* The parameters of the callable the value is synthesized for: the declared
\* type followed by a bool.
CandidateTypes == <<vs_param_type, "bool">>

\* One candidate tuple is built; its first value is the value synthesized
\* for the declared type.
ApplySynthesis ==
    /\ ~vs_result.done
    /\ \E t \in SynthTuple(CandidateTypes, vs_class_type, 0) :
         vs_result' = [done |-> TRUE,
                       edge_cases |-> get_edge_cases_for_type(vs_param_type),
                       generator |-> get_generator_for_type(vs_param_type),
                       o |-> t.o,
                       value |-> IF t.values = <<>> THEN None ELSE t.values[1],
                       inputs |-> t.values,
                       depth |-> t.depth,
                       ctor_inputs |-> t.ctor_inputs]
    /\ UNCHANGED <<eq_inputs1, eq_inputs2, eq_result, vs_param_type, vs_class_type,
                   gen_vars, ca_vars, run_vars>>

InitVS ==
    /\ vs_param_type \in DeclaredTypes
    /\ vs_class_type \in {"None"} \cup ClassNames
    /\ cls \in (IF vs_class_type = "None" THEN {NoClass} ELSE SynthClasses)
    /\ vs_result = NoSynthesis
    /\ eq_inputs1 = <<>> /\ eq_inputs2 = <<>> /\ eq_result = "idle"
    /\ func = [kind |-> "none", params |-> <<>>, fault |-> "none"]
    /\ num_cases = 0 /\ IS_WINDOWS = FALSE
    /\ pc = "idle" /\ idx = 1 /\ edge_i = 1 /\ rand_i = 0
    /\ test_cases = <<>> /\ used_inputs = <<>>
    /\ constructor_inputs = <<>> /\ valid_instance = 0
    /\ instances = <<>> /\ sigalrm = "SIG_DFL" /\ log = <<>>
    /\ CAIdle
    /\ RunIdle

NextVS == ApplySynthesis

SpecVS == InitVS /\ [][NextVS]_vars

----------------------------------------------------------------------------
(* C14, as stated: for a declared type outside int, float, str, bool, list, *)
(* dict and tuple (a missing annotation included) the boundary values are   *)
(* the one-element sequence holding null, there is no generator, and the    *)
(* synthesized value is null.                                               *)
C14_UnsupportedTypeYieldsNull ==
    (vs_result.done /\ vs_param_type \notin SupportedTypes) =>
        /\ vs_result.edge_cases = <<None>>
        /\ vs_result.generator = "None"
        /\ vs_result.o = "return"
        /\ vs_result.value = None

(* C14, amended: the same, except that the synthesized value is null only   *)
(* when the declared type is not the class under test passed to             *)
(* _generate_value_for_type (compared by name).                             *)
C14_UnsupportedTypeYieldsNullUnlessSelfTyped ==
    (vs_result.done /\ vs_param_type \notin SupportedTypes) =>
        /\ vs_result.edge_cases = <<None>>
        /\ vs_result.generator = "None"
        /\ vs_param_type # vs_class_type =>
             /\ vs_result.o = "return"
             /\ vs_result.value = None

C14_Witness ==
    /\ vs_result.done
    /\ vs_param_type = "complex" /\ vs_class_type = "Acc"
    /\ cls.ctor_params = <<"int">> /\ cls.ctor_fault = "none"
    /\ vs_result.value = None

----------------------------------------------------------------------------
(* C15: no fault of the target aborts generation: an error of any kind     *)
(* raised while the target is invoked on a candidate, an exit request      *)
(* included, does not propagate out of the generator; it is recorded as an *)
(* expected-error case and the remaining candidates are still processed.   *)
C15_NoFaultAbortsGeneration ==
    /\ (log # <<>> /\ IsCandidate(log[Len(log)])) => pc # "aborted"
    /\ \A k \in 1..Len(log) :
         log[k].o \in {"raise", "exit"} /\ IsCandidate(log[k]) =>
            log[k].fate = "recorded_failure"

----------------------------------------------------------------------------
(* C16: once a candidate was invoked and discarded on timeout, no later    *)
(* candidate of the run that is equivalent to it is invoked; every         *)
(* candidate of a run that goes on ends deduped, recorded as a success,    *)
(* recorded as a failure or discarded, and the list holds at most one case *)
(* per candidate.                                                          *)
Invoked(e) == IsCandidate(e) /\ e.o # "skip"

C16_DiscardedNeverRetried ==
    /\ \A i, j \in 1..Len(log) :
         (i < j /\ IsCandidate(log[i]) /\ log[i].fate = "discarded" /\ Invoked(log[j])) =>
            ~_are_functionally_equivalent(log[i].inputs, log[j].inputs)
    /\ \A k \in 1..Len(log) :
         (IsCandidate(log[k]) /\ log[k].fate \notin Stopped) =>
            log[k].fate \in {"deduped", "recorded_success", "recorded_failure", "discarded"}
    /\ Len(test_cases) <= Len(CandidateLog) + Len(ProbeLog)

----------------------------------------------------------------------------
(* C17: the constructor cases have pairwise non-equivalent constructor     *)
(* input tuples: every candidate, of the sweep and of the random phase, is *)
(* compared with the tuples already used and skipped when equivalent.      *)
C17_CtorInputsPairwiseNonEquivalent ==
    func.kind = "constructor" =>
        /\ \A i, j \in 1..Len(test_cases) :
             i < j => ~_are_functionally_equivalent(test_cases[i].constructor_inputs,
                                                    test_cases[j].constructor_inputs)
        /\ \A i, j \in 1..Len(log) :
             (i < j /\ Invoked(log[i]) /\ Invoked(log[j])) =>
                ~_are_functionally_equivalent(log[i].inputs, log[j].inputs)

----------------------------------------------------------------------------
(* C18: the getter generator returns exactly one case, flagged as a        *)
(* property getter and with empty member inputs, whenever an instance was  *)
(* constructed and the read did not time out, whatever num_cases is; it    *)
(* returns no case when no instance could be constructed.                  *)
C18_GetterExactlyOneCase ==
    func.kind = "getter" =>
        /\ (pc = "done" /\ valid_instance # 0 /\ ~SomeDiscarded) =>
              /\ Len(test_cases) = 1
              /\ test_cases[1].is_property_getter
              /\ test_cases[1].method_inputs = <<>>
        /\ valid_instance = 0 => test_cases = <<>>

----------------------------------------------------------------------------
(* C20: in method and setter synthesis the used-tuples collection starts   *)
(* empty and only grows; a candidate is invoked only if it is equivalent   *)
(* to no tuple already in the collection and is added to it when invoked;  *)
(* hence the inputs of the returned cases are pairwise non-equivalent.     *)
DedupKinds == MethodTypes \cup {"setter"}

\* The sweep and random candidates that were invoked, in order.
InvokedLog == SelectSeq(log, LAMBDA e : e.phase \in {"edge", "random"} /\ e.o # "skip")

UsedInputsAreTheInvoked ==
    func.kind \in DedupKinds =>
        /\ used_inputs = [k \in 1..Len(InvokedLog) |-> InvokedLog[k].inputs]
        /\ \A i, j \in 1..Len(used_inputs) :
             i < j => /\ ~_are_functionally_equivalent(used_inputs[j], used_inputs[i])
                      /\ ~_are_functionally_equivalent(used_inputs[i], used_inputs[j])
        /\ \A i, j \in 1..Len(test_cases) :
             i < j => ~_are_functionally_equivalent(CaseInputs(test_cases[i]),
                                                    CaseInputs(test_cases[j]))

UsedInputsOnlyGrow ==
    func.kind \in DedupKinds =>
        \/ used_inputs' = used_inputs
        \/ /\ Len(used_inputs') = Len(used_inputs) + 1
           /\ SubSeq(used_inputs', 1, Len(used_inputs)) = used_inputs
           /\ ~IsDuplicate(used_inputs'[Len(used_inputs')], used_inputs)
           /\ log'[Len(log')].o # "skip"
           /\ log'[Len(log')].inputs = used_inputs'[Len(used_inputs')]

C20_UsedInputsGuardEveryInvocation ==
    []UsedInputsAreTheInvoked /\ [][UsedInputsOnlyGrow]_vars

----------------------------------------------------------------------------
(* Generation with a pinned random source, run twice                       *)

\* The initial state of the random source: the bits its draws return, in
\* order (the stream repeats after the last one).
Seeds == [1..3 -> {0, 1}]

\* The declared types of the positions of a logged tuple.
TypesOf(e) == IF e.phase = "probe" THEN cls.ctor_params ELSE func.params

\* The constructor parameters a value is drawn for when an instance of the
\* class under test is synthesized (the inner calls are made without
\* class_type, so only a type with a generator draws).
DrawnCtorParams ==
    {i \in 1..Len(cls.ctor_params) : get_generator_for_type(cls.ctor_params[i]) # "None"}

\* Number of draws _generate_value_for_type makes for one declared type: one
\* per constructor parameter for an instance of the class under test, one
\* for a type with a generator, none otherwise.
DrawsFor(param_type) ==
    IF SelfTyped(param_type, ClassType) /\ cls.described
    THEN Cardinality(DrawnCtorParams)
    ELSE IF get_generator_for_type(param_type) # "None" THEN 1 ELSE 0

\* Position j of the tuple was drawn from the random source: it is not the
\* swept position and its synthesis draws.
Drawn(e, j) == j # e.param /\ DrawsFor(TypesOf(e)[j]) > 0

\* Number of draws made for the first n positions of a tuple.
DrawsBefore(e, n) ==
    Cardinality({ji \in (1..n) \X (1..(Len(cls.ctor_params) + 1)) :
                    ji[1] # e.param /\ ji[2] <= DrawsFor(TypesOf(e)[ji[1]])})

\* Number of draws made for the tuples of a log.
RECURSIVE Consumed(_)
Consumed(l) ==
    IF l = <<>> THEN 0
    ELSE Consumed(SubSeq(l, 1, Len(l) - 1)) + DrawsBefore(l[Len(l)], Len(l[Len(l)].inputs))

\* The k-th draw (from 0) of a run started in state `seed`.
Bit(k) == seed[(k % Len(seed)) + 1]

\* random.randint / random.choice as a function of the drawn bit.
SampleAt(param_type, r) ==
    LET S == _generate_value_for_type(param_type)
    IN IF r = 0 THEN CHOOSE x \in S : \A y \in S : x.v <= y.v
                ELSE CHOOSE x \in S : \A y \in S : y.v <= x.v

\* The value synthesized for a declared type when k draws were made before:
\* for an instance of the class under test, the instance built from the
\* constructor inputs drawn one after the other (None when the constructor
\* raises); the address of the instance is not the source's to decide.
SynthFromStream(param_type, k) ==
    IF SelfTyped(param_type, ClassType) /\ cls.described
    THEN LET ci == [i \in 1..Len(cls.ctor_params) |->
                      IF i \in DrawnCtorParams
                      THEN SampleAt(cls.ctor_params[i],
                                    Bit(k + Cardinality({h \in DrawnCtorParams : h < i})))
                      ELSE None]
         IN IF Construct(ci).o = "return" THEN PyInstance(InitialData(ci)) ELSE None
    ELSE SampleAt(param_type, Bit(k))

\* A value without its address.
Unlocated(x) == [t |-> x.t, v |-> x.v]

\* The tuples appended by a step hold, at their drawn positions, the values
\* the source returns at that point of the run.
DrawsFromStream ==
    \A k \in (Len(log) + 1)..Len(log') :
        \A j \in 1..Len(log'[k].inputs) :
            Drawn(log'[k], j) =>
                Unlocated(log'[k].inputs[j]) =
                    SynthFromStream(TypesOf(log'[k])[j],
                                    Consumed(SubSeq(log', 1, k - 1)) + DrawsBefore(log'[k], j - 1))

\* The first run is over; the source is put back in the same state and the
\* generator is called again on the same target with the same num_cases.
Rerun ==
    /\ ~first_run.done
    /\ pc \in {"done", "aborted"}
    /\ first_run' = [done |-> TRUE, log |-> log, test_cases |-> test_cases, pc |-> pc]
    /\ pc' = StartPc(func, num_cases)
    /\ idx' = 1 /\ edge_i' = 1 /\ rand_i' = 0
    /\ test_cases' = <<>> /\ used_inputs' = <<>>
    /\ constructor_inputs' = <<>> /\ valid_instance' = 0
    /\ instances' = <<>>
    /\ log' = <<>>
    /\ UNCHANGED <<func, cls, num_cases, IS_WINDOWS, sigalrm, seed, pg_vars,
                   ca_vars, pure_vars>>

\* Instance methods with a parameter of the class under test, of a class
\* whose constructor takes an int.
SelfTypedTargets ==
    {[func |-> [kind |-> "methods", params |-> p, fault |-> "none"],
      cls |-> [ctor_params |-> <<"int">>, ctor_fault |-> "none", transform |-> "id",
               described |-> TRUE]] :
        p \in {<<ClassUnderTest>>, <<"bool", ClassUnderTest>>}}

InitSeeded ==
    /\ InitGeneratorOn(Targets \cup SelfTypedTargets)
    /\ seed \in Seeds /\ first_run = NoRun /\ PGIdle

NextSeeded == (Next /\ DrawsFromStream) \/ Rerun

SpecSeeded == InitSeeded /\ [][NextSeeded]_vars

----------------------------------------------------------------------------
(* C19: two runs on the same deterministic target with the same num_cases  *)
(* and the same initial state of the random source invoke the same         *)
(* candidates in the same order and return equal case lists.               *)
C19_SeededRunsAgree ==
    first_run.done =>
        /\ Len(log) <= Len(first_run.log)
        /\ log = SubSeq(first_run.log, 1, Len(log))
        /\ pc \in {"done"} \cup Stopped =>
              /\ log = first_run.log
              /\ test_cases = first_run.test_cases
              /\ pc = first_run.pc


----------------------------------------------------------------------------
(* C21: when the declared type is the class under test, value synthesis    *)
(* recurses into the constructor parameters one level deep at most (a      *)
(* nested parameter of the same type receives null), returns null when     *)
(* building the instance fails, and the remaining parameters of the        *)
(* candidate are still synthesized.                                        *)
C21_SelfTypedSynthesisBounded ==
    (vs_result.done /\ SelfTyped(vs_param_type, vs_class_type)) =>
        /\ vs_result.depth <= 1
        /\ \A j \in 1..Len(vs_result.ctor_inputs) :
             cls.ctor_params[j] = vs_class_type => vs_result.ctor_inputs[j] = None
        /\ cls.ctor_fault \in {"none", "raise"} =>
             /\ vs_result.o = "return"
             /\ Len(vs_result.inputs) = Len(CandidateTypes)
             /\ vs_result.inputs[2] \in generate_bool_values
             /\ IF cls.described /\ Construct(vs_result.ctor_inputs).o = "return"
                THEN vs_result.value = PyInstance(InitialData(vs_result.ctor_inputs))
                ELSE vs_result.value = None

C21_Witness ==
    /\ vs_result.done
    /\ vs_param_type = "Acc" /\ vs_class_type = "Acc"
    /\ cls.ctor_params = <<"int", "Acc">> /\ cls.ctor_fault = "raise"
    /\ vs_result.ctor_inputs = <<PyInt(0), None>>
    /\ vs_result.inputs = <<None, PyBool(TRUE)>>

----------------------------------------------------------------------------
(* _get_class_hierarchy applied to hierarchies of up to four classes        *)

\* The sequences without repetition over a set of classes.
Orderings(S) ==
    {q \in UNION {[1..n -> S] : n \in 0..Cardinality(S)} :
        \A i, j \in 1..Len(q) : i # j => q[i] # q[j]}

\* The first head of the non-empty sequences that is in no tail (C3 merge).
Good(ne, k) == \A j \in 1..Len(ne) : ~InTail(ne[k][1], ne[j])
MergeHead(ne) == ne[CHOOSE k \in 1..Len(ne) : Good(ne, k) /\ \A j \in 1..(k - 1) : ~Good(ne, j)][1]

\* The C3 merge succeeds: at every step some head is in no tail.
RECURSIVE MergeOk(_)
MergeOk(seqs) ==
    LET ne == SelectSeq(seqs, LAMBDA q : q # <<>>)
    IN IF ne = <<>> THEN TRUE
       ELSE IF \A k \in 1..Len(ne) : ~Good(ne, k) THEN FALSE
       ELSE MergeOk([j \in 1..Len(ne) |->
                       IF ne[j][1] = MergeHead(ne) THEN Tail(ne[j]) ELSE ne[j]])

\* Python accepts the class statement: a consistent method resolution order exists.
RECURSIVE MroOk(_)
MroOk(c) ==
    /\ \A k \in 1..Len(bases[c]) : MroOk(bases[c][k])
    /\ MergeOk([k \in 1..Len(bases[c]) |-> Mro(bases[c][k])] \o <<bases[c]>>)

\* __bases__ of classes 1..4, each class deriving from later classes only.
ClassShapes ==
    {<<b1, b2, b3, <<>>>> :
        b1 \in Orderings(2..4), b2 \in Orderings(3..4), b3 \in Orderings(4..4)}

EmptyNamespace == [n \in AllNames |-> "absent"]

GetClassHierarchy ==
    /\ ca_pc = "entry"
    /\ hierarchy' = _get_class_hierarchy(1)
    /\ ca_pc' = "hierarchy"
    /\ UNCHANGED <<ns, bases, ca_i, class_info, processed_methods, processed_properties,
                   arg, ca_return, gen_vars, pure_vars, run_vars>>

InitCH ==
    /\ bases \in ClassShapes
    /\ \A c \in 1..Len(bases) : MroOk(c)
    /\ ns = [c \in 1..Len(bases) |-> EmptyNamespace]
    /\ hierarchy = <<>> /\ ca_pc = "entry" /\ ca_i = 0
    /\ class_info = EmptyClassInfo
    /\ processed_methods = {} /\ processed_properties = {}
    /\ arg = ClassArg /\ ca_return = NoReturn
    /\ GenIdle
    /\ PureIdle
    /\ RunIdle

NextCH == GetClassHierarchy

SpecCH == InitCH /\ [][NextCH]_vars

----------------------------------------------------------------------------
(* C22: for any class hierarchy, multiple inheritance with a shared        *)
(* ancestor included, _get_class_hierarchy starts with the analyzed class, *)
(* never contains the universal root, contains every other ancestor        *)
(* exactly once and places every class before all of its base classes.     *)
RECURSIVE Ancestors(_)
Ancestors(c) == {c} \cup UNION {Ancestors(bases[c][k]) : k \in 1..Len(bases[c])}

Occurrences(h, c) == {k \in 1..Len(h) : h[k] = c}

C22_HierarchyIsLinearization ==
    ca_pc = "hierarchy" =>
        /\ hierarchy[1] = 1
        /\ Occurrences(hierarchy, 0) = {}
        /\ \A c \in 1..Len(bases) :
             Cardinality(Occurrences(hierarchy, c)) = (IF c \in Ancestors(1) THEN 1 ELSE 0)
        /\ \A c \in Ancestors(1) : \A k \in 1..Len(bases[c]) :
             \A i \in Occurrences(hierarchy, c), j \in Occurrences(hierarchy, bases[c][k]) :
                i < j

----------------------------------------------------------------------------
(* C23: on a preemptive-timeout platform no deadline alarm stays pending    *)
(* between candidates: after a candidate has been processed, whatever its   *)
(* outcome (skipped as a duplicate, returned, raised, timed out), and when  *)
(* the generator has returned, the alarm armed for it has been cancelled.   *)

C23_NoAlarmPendingBetweenCandidates ==
    ~IS_WINDOWS =>
        \A k \in 1..Len(log) :
            /\ log[k].alarm # "pending"
            /\ (log[k].armed = "timeout_handler" => log[k].alarm = "off")

C23_Witness ==
    /\ ~IS_WINDOWS /\ pc = "done" /\ func.kind = "methods"
    /\ \E k \in 1..Len(log) : log[k].fate = "deduped"
    /\ \E k \in 1..Len(log) :
          log[k].fate = "recorded_failure" /\ log[k].armed = "timeout_handler"
    /\ \E k \in 1..Len(log) :
          log[k].fate = "recorded_success" /\ log[k].armed = "timeout_handler"

----------------------------------------------------------------------------
(* C24: on a preemptive-timeout platform target code runs only while a      *)
(* deadline alarm with the timeout handler is armed -- in the no-argument   *)
(* constructor case and in the probing constructions too -- so a target     *)
(* that never returns cannot block generation.                              *)

C24_TargetRunsOnlyUnderTimeoutAlarm ==
    ~IS_WINDOWS =>
        /\ \A k \in 1..Len(log) :
              log[k].o # "skip" => log[k].armed = "timeout_handler"
        /\ pc # "blocked"

----------------------------------------------------------------------------
(* C25: over tuples whose members are ints, bools, strings, null and        *)
(* nested lists, tuples and mappings of these, the relation computed by     *)
(* _are_functionally_equivalent is an equivalence relation: reflexive,      *)
(* symmetric and transitive.                                                *)

\* The tuples of the compared set whose members all lie in that domain.
PlainTuples == {z \in EqTuples : \A k \in 1..Len(z) : HasRepresentation(z[k])}

C25_EquivalenceRelation ==
    (eq_result \in {"True", "False"}
       /\ eq_inputs1 \in PlainTuples /\ eq_inputs2 \in PlainTuples) =>
        /\ eq_inputs1 = eq_inputs2 => eq_result = "True"
        /\ eq_result = PyBoolean(_are_functionally_equivalent(eq_inputs2, eq_inputs1))
        /\ \A z \in PlainTuples :
              (eq_result = "True" /\ _are_functionally_equivalent(eq_inputs2, z))
                 => _are_functionally_equivalent(eq_inputs1, z)

C25_Witness ==
    /\ eq_inputs1 = <<PyList(<<PyInt(1)>>)>>
    /\ eq_inputs2 = <<PyTuple(<<PyBool(TRUE)>>)>>
    /\ eq_result = "True"
    /\ \E z \in PlainTuples \ {eq_inputs1, eq_inputs2} :
          _are_functionally_equivalent(eq_inputs2, z)

----------------------------------------------------------------------------
(* C26: the number of cases is bounded by the number of candidates          *)
(* proposed and a skipped candidate is never replaced: for a callable with  *)
(* at least one parameter the boundary phase proposes exactly the sum over  *)
(* the parameters of their numbers of boundary values and the random phase  *)
(* exactly num_cases candidates; a method or constructor without            *)
(* parameters yields at most one case whatever num_cases.                   *)

RandomLog == SelectSeq(log, LAMBDA e : e.phase = "random")

ProposedLog == SelectSeq(log, LAMBDA e : e.phase # "probe")

RECURSIVE BoundaryTotal(_, _)
BoundaryTotal(params, i) ==
    IF i > Len(params) THEN 0 ELSE NumEdges(params, i) + BoundaryTotal(params, i + 1)

C26_CasesBoundedByCandidates ==
    pc = "done" =>
        /\ Len(test_cases) <= Len(ProposedLog)
        /\ func.params # <<>> =>
              /\ Len(EdgeLog) = BoundaryTotal(func.params, 1)
              /\ Len(RandomLog) = num_cases
        /\ (func.params = <<>> /\ func.kind \in {"methods", "constructor"}) =>
              Len(test_cases) <= 1


\* The generator of an instance member returned before its phases: neither
\* construction of the probe instance succeeded or, for an instance method,
\* the class description has no constructor.
ReturnedBeforePhases ==
    \/ /\ func.kind = "methods"
       /\ \E k \in 1..Len(log) : log[k].fate \in {"probe_failed", "no_instance"}
    \/ /\ func.kind \in {"getter", "setter"}
       /\ \E k \in 1..Len(log) : log[k].fate = "probe_failed"

\* Only the instance-method generator records the construction fault.
ConstructionFaultCases ==
    IF func.kind = "methods" /\ \E k \in 1..Len(log) : log[k].fate = "probe_failed"
    THEN 1 ELSE 0

\* C26 (amended): as C26, except that a generator of an instance member
\* whose class cannot be constructed proposes no candidate at all: the method
\* generator then yields the single construction-fault case (none when the
\* class has no constructor description), the property generators none.
C26_CasesBoundedByCandidatesUnlessUnconstructible ==
    /\ Len(test_cases) <= Len(ProposedLog) + ConstructionFaultCases
    /\ Len(EdgeLog) <= BoundaryTotal(func.params, 1)
    /\ Len(RandomLog) <= num_cases
    /\ pc = "done" =>
        /\ (func.params # <<>> /\ ~ReturnedBeforePhases) =>
              /\ Len(EdgeLog) = BoundaryTotal(func.params, 1)
              /\ Len(RandomLog) = num_cases
        /\ ReturnedBeforePhases =>
              /\ ProposedLog = <<>>
              /\ Len(test_cases) = ConstructionFaultCases
        /\ (func.params = <<>> /\ func.kind \in {"methods", "constructor"}) =>
              Len(test_cases) <= 1

C26_Witness ==
    /\ pc = "done" /\ func.kind = "methods" /\ func.params # <<>>
    /\ ~ReturnedBeforePhases
    /\ \E k \in 1..Len(log) : log[k].fate = "deduped" /\ log[k].phase = "random"
    /\ Len(test_cases) < Len(ProposedLog)
    /\ Len(RandomLog) = num_cases /\ num_cases >= 2

----------------------------------------------------------------------------
(* Generation for targets that mutate their arguments                       *)

MutableSignatures == {<<"list">>, <<"dict">>, <<"list", "bool">>, <<"bool", "dict">>}

MutatingTargets ==
    {[func |-> [kind |-> "function", params |-> p, fault |-> f], cls |-> NoClass] :
        p \in MutableSignatures, f \in {"none", Mutating}}
    \cup
    {[func |-> [kind |-> "methods", params |-> p, fault |-> f],
      cls |-> [ctor_params |-> cp, ctor_fault |-> "none", transform |-> "id",
               described |-> TRUE]] :
        p \in MutableSignatures, f \in {"none", Mutating}, cp \in {<<>>, <<"int">>}}

InitMU ==
    /\ \E t \in MutatingTargets : func = t.func /\ cls = t.cls
    /\ num_cases \in 1..MaxNumCases
    /\ IS_WINDOWS \in BOOLEAN
    /\ pc = StartPc(func, num_cases)
    /\ idx = 1 /\ edge_i = 1 /\ rand_i = 0
    /\ test_cases = <<>> /\ used_inputs = <<>>
    /\ constructor_inputs = <<>> /\ valid_instance = 0
    /\ instances = <<>>
    /\ sigalrm = "SIG_DFL"
    /\ log = <<>>
    /\ CAIdle
    /\ PureIdle
    /\ RunIdle

NextMU ==
    \/ FuncEdgeCase
    \/ FuncRandomCase
    \/ MethodProbe
    \/ MethodEdgeCase
    \/ MethodRandomCase

SpecMU == InitMU /\ [][NextMU]_vars

----------------------------------------------------------------------------
(* C27: the inputs stored in a recorded case and the tuple stored in the    *)
(* used-tuples collection are the values the candidate had when it was      *)
(* proposed; invoking the target does not change them, also when the target *)
(* mutates a list or mapping argument in place.                             *)

C27_StoredInputsAreTheProposed ==
    /\ Len(test_cases) = Len(RecordedLog)
    /\ \A k \in 1..Len(test_cases) :
          CaseInputs(test_cases[k]) = RecordedLog[k].inputs
    /\ func.kind \in DedupKinds =>
          used_inputs = [k \in 1..Len(InvokedLog) |-> InvokedLog[k].inputs]

----------------------------------------------------------------------------
(* generate_class_test_cases: the mapping from member keys to case lists    *)

MethodNames == {"m", "get_value", "set_value"}

\* class_info['methods'] is filled in the order of inspect.getmembers, which
\* returns the members sorted by name.
MethodLists ==
    {<<>>} \cup {<<a>> : a \in MethodNames}
           \cup {<<"get_value", "m">>, <<"get_value", "set_value">>, <<"m", "set_value">>}

\* prop_info: has_getter, has_setter and the 'return' type hint.
PropertyDesc(name, has_getter, has_setter, return_hint) ==
    [name |-> name, has_getter |-> has_getter, has_setter |-> has_setter,
     return_hint |-> return_hint]

\* class_info['properties'], also in the sorted order of inspect.getmembers.
PropertyLists ==
    {<<>>} \cup {<<PropertyDesc("value", TRUE, st, ty)>> :
                    st \in BOOLEAN, ty \in {"int", "Any"}}
           \cup {<<PropertyDesc("value", TRUE, TRUE, "Any"), PropertyDesc("x", TRUE, st, "int")>> :
                    st \in BOOLEAN}

\* The parameter lists the methods of the analysed class take.
MemberSignatures == {<<>>, <<"int">>}

\* Class descriptions as analyze_class returns them: every name in one
\* category only.
ClassInfos ==
    {[EmptyClassInfo EXCEPT !.methods = ms, !.class_methods = cm,
                            !.static_methods = sm, !.properties = ps] :
        ms \in MethodLists, cm \in {<<>>, <<"make">>}, sm \in {<<>>, <<"util">>},
        ps \in PropertyLists}

\* The (method_type, method_name) pairs in the order of the nested loop over
\* methods, class_methods and static_methods.
MethodLoop ==
    [k \in 1..Len(class_info.methods) |-> <<"methods", class_info.methods[k]>>]
    \o [k \in 1..Len(class_info.class_methods) |->
           <<"class_methods", class_info.class_methods[k]>>]
    \o [k \in 1..Len(class_info.static_methods) |->
           <<"static_methods", class_info.static_methods[k]>>]

\* f'get_{prop_name}' and f'set_{prop_name}'
GetterKey(prop_name) == "get_" \o prop_name
SetterKey(prop_name) == "set_" \o prop_name

\* One recorded case of a member generator: it names the member it exercised
\* (method_name), holds the candidate and carries the member it came from.
MemberCase(member, method_name, method_inputs) ==
    [method_name |-> method_name, method_inputs |-> method_inputs,
     is_property_getter |-> member[1] = "getter", member |-> member]

\* `valid_instance = cls()` succeeded.  The classes analysed here are either
\* constructible without arguments or have no 'constructor' entry, so there
\* is no second attempt with synthesized constructor inputs.
ProbeSucceeds == Construct(<<>>).o = "return"

\* The used-inputs lists the loop over the parameters' boundary values can
\* leave, from parameter i and boundary value j on.
RECURSIVE EdgePhase(_, _, _, _)
EdgePhase(params, i, j, used) ==
    IF i > Len(params) THEN {used}
    ELSE IF j > NumEdges(params, i) THEN EdgePhase(params, i + 1, 1, used)
    ELSE UNION {EdgePhase(params, i, j + 1,
                          IF IsDuplicate(inputs, used) THEN used ELSE Append(used, inputs)) :
                  inputs \in EdgeInputs(params, i, get_edge_cases_for_type(params[i])[j])}

\* The used-inputs lists `for _ in range(num_cases)` can leave after n more
\* random candidates.
RECURSIVE RandomPhase(_, _, _)
RandomPhase(params, n, used) ==
    IF n = 0 THEN {used}
    ELSE UNION {RandomPhase(params, n - 1,
                            IF IsDuplicate(inputs, used) THEN used ELSE Append(used, inputs)) :
                  inputs \in RandomInputs(params)}

\* The candidates a generator accepts for a member taking params: every
\* accepted candidate of a member that returns or raises is recorded.
AcceptedCandidates(params, n) ==
    UNION {RandomPhase(params, n, used) : used \in EdgePhase(params, 1, 1, <<>>)}

\* The lists a member generator can return for a member that neither hangs
\* nor exits.  An instance method without a valid instance gets no case; a
\* getter and a member without parameters get one; a member with parameters
\* (a setter takes the property's value) gets one per accepted candidate.
MemberCases(member, method_name, params) ==
    IF member[1] = "methods" /\ ~ProbeSucceeds THEN {<<>>}
    ELSE IF member[1] = "getter" \/ params = <<>>
    THEN {<<MemberCase(member, method_name, <<>>)>>}
    ELSE {[k \in 1..Len(used) |-> MemberCase(member, method_name, used[k])] :
            used \in AcceptedCandidates(params, num_cases)}

\* A dict is the sequence of its items in insertion order, the order
\* items() yields them in.
Item(key, value) == [key |-> key, value |-> value]

Keys(d) == [k \in 1..Len(d) |-> d[k].key]

\* key in d
HasKey(d, key) == \E k \in 1..Len(d) : d[k].key = key

\* d[key]
Get(d, key) == d[CHOOSE k \in 1..Len(d) : d[k].key = key].value

\* d[key] = value: a key the dict already holds keeps its position, a new
\* key goes to the end.
Put(d, key, value) ==
    IF HasKey(d, key)
    THEN [k \in 1..Len(d) |-> IF d[k].key = key THEN Item(key, value) ELSE d[k]]
    ELSE Append(d, Item(key, value))

\* The instances a member generator constructs while it produces `cases`,
\* as they are when it returns: the no-argument constructor case or one
\* instance per constructor candidate; for an instance method the probe
\* instance and one receiver per case, mutated by the call; for a getter the
\* probe instance; for a setter the probe instance and one receiver per
\* case, holding the value written.  Class and static methods construct
\* nothing, and neither does a generator whose `cls()` fails.
MemberInstances(member, cases) ==
    CASE member[1] = "constructor" ->
            LET ok == SelectSeq(cases, LAMBDA c : Construct(c.method_inputs).o = "return")
            IN [k \in 1..Len(ok) |-> InitialData(ok[k].method_inputs)]
      [] member[1] \in {"class_methods", "static_methods"} -> <<>>
      [] ~ProbeSucceeds -> <<>>
      [] member[1] = "methods" ->
            <<InitialData(<<>>)>>
            \o [k \in 1..Len(cases) |-> MethodMutation(InitialData(<<>>))]
      [] member[1] = "getter" -> <<InitialData(<<>>)>>
      [] OTHER ->
            <<InitialData(<<>>)>>
            \o [k \in 1..Len(cases) |-> SetterStores(cases[k].method_inputs[1])]

\* The SIGALRM disposition a member generator leaves: the no-argument
\* constructor case arms no alarm and the constructor loops install SIG_DFL;
\* an instance method without a valid instance returns before any alarm;
\* every other generator installs timeout_handler and never restores the
\* former handler.
MemberHandler(member, params, handler) ==
    CASE member[1] = "constructor" ->
            IF params = <<>> THEN handler
            ELSE IF IS_WINDOWS THEN handler ELSE CtorAlarmHandler
      [] member[1] = "methods" /\ ~ProbeSucceeds -> handler
      [] OTHER -> IF IS_WINDOWS THEN handler ELSE "timeout_handler"

Exercised(member, key) == [member |-> member, key |-> key]

\* `if 'constructor' in class_info: test_cases['__init__'] = constructor_cases`
ClassConstructorCases ==
    /\ pc = "class_constructor"
    /\ IF cls.described
       THEN /\ \E constructor_cases \in
                    MemberCases(<<"constructor", "__init__">>, "__init__", cls.ctor_params) :
                  /\ test_cases' = Put(test_cases, "__init__", constructor_cases)
                  /\ instances' = instances
                        \o MemberInstances(<<"constructor", "__init__">>, constructor_cases)
            /\ sigalrm' = MemberHandler(<<"constructor", "__init__">>, cls.ctor_params,
                                        sigalrm)
            /\ log' = Append(log, Exercised(<<"constructor", "__init__">>, "__init__"))
       ELSE UNCHANGED <<test_cases, log, instances, sigalrm>>
    /\ pc' = IF MethodLoop # <<>> THEN "class_methods"
             ELSE IF class_info.properties # <<>> THEN "class_properties" ELSE "done"
    /\ idx' = 1
    /\ UNCHANGED <<func, cls, num_cases, IS_WINDOWS, edge_i, rand_i, used_inputs,
                   constructor_inputs, valid_instance, ca_vars, pure_vars, run_vars>>

\* One iteration of the loop over the three method categories:
\* `test_cases[method_name] = method_cases`.
ClassMethodCases ==
    /\ pc = "class_methods"
    /\ LET member == MethodLoop[idx]
       IN /\ \E method_cases \in MemberCases(member, member[2], func.params) :
                /\ test_cases' = Put(test_cases, member[2], method_cases)
                /\ instances' = instances \o MemberInstances(member, method_cases)
          /\ sigalrm' = MemberHandler(member, func.params, sigalrm)
          /\ log' = Append(log, Exercised(member, member[2]))
    /\ IF idx < Len(MethodLoop)
       THEN idx' = idx + 1 /\ pc' = "class_methods"
       ELSE idx' = 1 /\ pc' = IF class_info.properties # <<>>
                                THEN "class_properties" ELSE "done"
    /\ UNCHANGED <<func, cls, num_cases, IS_WINDOWS, edge_i, rand_i, used_inputs,
                   constructor_inputs, valid_instance, ca_vars, pure_vars, run_vars>>

\* One iteration of the loop over the properties: the getter's list, then
\* the setter's.
ClassPropertyCases ==
    /\ pc = "class_properties"
    /\ LET prop == class_info.properties[idx]
           getter == <<"getter", prop.name>>
           setter == <<"setter", prop.name>>
           log_getter == IF prop.has_getter
                         THEN Append(log, Exercised(getter, GetterKey(prop.name)))
                         ELSE log
           after_getter == IF prop.has_getter
                           THEN MemberHandler(getter, <<>>, sigalrm) ELSE sigalrm
       IN \E getter_cases \in MemberCases(getter, GetterKey(prop.name), <<>>) :
            LET with_getter == IF prop.has_getter
                               THEN Put(test_cases, GetterKey(prop.name), getter_cases)
                               ELSE test_cases
                heap_getter == IF prop.has_getter
                               THEN instances \o MemberInstances(getter, getter_cases)
                               ELSE instances
            IN IF prop.has_setter
               THEN /\ \E setter_cases \in MemberCases(setter, SetterKey(prop.name),
                                                        <<prop.return_hint>>) :
                         /\ test_cases' = Put(with_getter, SetterKey(prop.name),
                                              setter_cases)
                         /\ instances' = heap_getter
                                            \o MemberInstances(setter, setter_cases)
                    /\ sigalrm' = MemberHandler(setter, <<prop.return_hint>>, after_getter)
                    /\ log' = Append(log_getter, Exercised(setter, SetterKey(prop.name)))
               ELSE /\ test_cases' = with_getter
                    /\ instances' = heap_getter
                    /\ sigalrm' = after_getter
                    /\ log' = log_getter
    /\ IF idx < Len(class_info.properties)
       THEN idx' = idx + 1 /\ pc' = "class_properties"
       ELSE idx' = 1 /\ pc' = "done"
    /\ UNCHANGED <<func, cls, num_cases, IS_WINDOWS, edge_i, rand_i, used_inputs,
                   constructor_inputs, valid_instance, ca_vars, pure_vars, run_vars>>

InitCT ==
    /\ class_info \in ClassInfos
    /\ cls \in {NoClass, UndescribedClass}
    /\ \E params \in MemberSignatures :
          func = [kind |-> "none", params |-> params, fault |-> "none"]
    /\ num_cases = 1 /\ IS_WINDOWS = FALSE
    /\ pc = "class_constructor"
    /\ idx = 1 /\ edge_i = 1 /\ rand_i = 0
    /\ test_cases = <<>> /\ used_inputs = <<>>
    /\ constructor_inputs = <<>> /\ valid_instance = 0
    /\ instances = <<>>
    /\ sigalrm = "SIG_DFL"
    /\ log = <<>>
    /\ hierarchy = <<>> /\ ns = <<>> /\ bases = <<>>
    /\ ca_pc = "idle" /\ ca_i = 0
    /\ processed_methods = {} /\ processed_properties = {}
    /\ arg = ClassArg /\ ca_return = NoReturn
    /\ PureIdle
    /\ RunIdle

NextCT == ClassConstructorCases \/ ClassMethodCases \/ ClassPropertyCases

SpecCT == InitCT /\ [][NextCT]_vars

----------------------------------------------------------------------------
(* C28: in the mapping returned by generate_class_test_cases every          *)
(* exercised member has its own key; the case lists of two distinct         *)
(* members are never stored under the same key; each list contains only     *)
(* cases whose member name equals its key.                                  *)

C28_OneKeyPerMember ==
    /\ \A i, j \in 1..Len(log) :
          log[i].member # log[j].member => log[i].key # log[j].key
    /\ \A n \in 1..Len(test_cases) :
          \A k \in 1..Len(test_cases[n].value) :
              test_cases[n].value[k].method_name = test_cases[n].key
    /\ pc = "done" =>
          \A i \in 1..Len(log) :
              /\ HasKey(test_cases, log[i].key)
              /\ \A k \in 1..Len(Get(test_cases, log[i].key)) :
                    Get(test_cases, log[i].key)[k].member = log[i].member

----------------------------------------------------------------------------
(* generate_pytest_file: rendering the cases of one class                   *)

\* The class of the rendered module and the name its instances show in the
\* default repr (`<accmod.Acc object at 0x...>`).
ClsName == "Acc"
ReprClassName == "accmod.Acc"

\* f"{cls_name.lower()}_instance"
InstanceFixture(cls_name) ==
    IF cls_name = "Acc" THEN "acc_instance" ELSE cls_name \o "_instance"

\* f'create_mock_{class_name.replace(".", "_")}_instance'
MockFuncName(class_name) ==
    IF class_name = "accmod.Acc" THEN "create_mock_accmod_Acc_instance"
    ELSE "create_mock_" \o class_name \o "_instance"

\* str(input_value).startswith('<') and ' object at 0x' in str(input_value)
HasDefaultRepr(x) == x.t = "instance"

\* A rendered value: the repr of the value, or a call of a mock factory.
Literal(x) == [code |-> "repr", v |-> x, name |-> "none"]
MockCall(name) == [code |-> "call", v |-> None, name |-> name]

_serialize_method_inputs(method_inputs) ==
    [k \in 1..Len(method_inputs) |->
        IF method_inputs[k] = None THEN Literal(None)
        ELSE IF HasDefaultRepr(method_inputs[k])
             THEN MockCall(MockFuncName(ReprClassName))
             ELSE Literal(method_inputs[k])]

\* `mock_functions.add((mock_func_name, class_name))` for the inputs of one case.
MocksReferenced(method_inputs) ==
    {<<MockFuncName(ReprClassName), ReprClassName>> :
        k \in {j \in 1..Len(method_inputs) : HasDefaultRepr(method_inputs[j])}}

RECURSIVE MocksOfCases(_)
MocksOfCases(cases) ==
    IF cases = <<>> THEN {}
    ELSE MocksReferenced(Head(cases).method_inputs) \cup MocksOfCases(Tail(cases))

\* The items of the rendered file.
FixtureItem(name, inputs) == [item |-> "fixture", name |-> name, inputs |-> inputs]

FactoryItem(name, class_name, inputs) ==
    [item |-> "factory", name |-> name, class_name |-> class_name, inputs |-> inputs]

TestItem(name, fixture, rows) ==
    [item |-> "test", name |-> name, fixture |-> fixture, rows |-> rows]

\* One row of a parametrize list, or the inputs written into a raises-test.
Row(tc, method_inputs) ==
    [constructor_inputs |-> tc.constructor_inputs, method_inputs |-> method_inputs,
     expected |-> tc.expected_output]

Regular(cases) == SelectSeq(cases, LAMBDA tc : tc.raises = "None")
Exceptional(cases) == SelectSeq(cases, LAMBDA tc : tc.raises # "None")

\* The keys `for method_name, method_cases in test_cases.items()` renders,
\* in the order the mapping holds them: `if method_name == '__init__': continue`.
MemberKeys == SelectSeq(Keys(class_test_cases), LAMBDA k : k # "__init__")

\* method_name.startswith('get_') / method_name.startswith('set_')
KeyPrefix(key) ==
    CASE key = "get_value" -> "get_"
      [] key = "set_value" -> "set_"
      [] OTHER             -> ""

\* The branch of the loop body a key is rendered by.
MemberBranch(key, cases) ==
    IF (\E k \in 1..Len(cases) : cases[k].is_property_getter) /\ KeyPrefix(key) = "get_"
    THEN "getter"
    ELSE IF KeyPrefix(key) = "set_" THEN "setter" ELSE "method"

\* The rendered method inputs of one case in the given branch.
RenderedInputs(branch, tc) ==
    CASE branch = "method" -> _serialize_method_inputs(tc.method_inputs)
      [] branch = "setter" -> <<Literal(tc.method_inputs[1])>>
      [] OTHER             -> <<>>

\* The tests rendered for one member: one parametrized test for the regular
\* cases and one test per erroring case, all taking the instance fixture.
MemberTests(cls_name, key, cases) ==
    LET branch == MemberBranch(key, cases)
        regular == Regular(cases)
        exceptional == Exceptional(cases)
    IN (IF regular = <<>> THEN <<>>
        ELSE <<TestItem(<<cls_name, key, "regular", 0>>, InstanceFixture(cls_name),
                        [k \in 1..Len(regular) |->
                            Row(regular[k], RenderedInputs(branch, regular[k]))])>>)
       \o [k \in 1..Len(exceptional) |->
             TestItem(<<cls_name, key, "raises", k - 1>>, InstanceFixture(cls_name),
                      <<Row(exceptional[k], RenderedInputs(branch, exceptional[k]))>>)]

RECURSIVE SetToSeq(_)
SetToSeq(S) ==
    IF S = {} THEN <<>>
    ELSE LET x == CHOOSE y \in S : TRUE IN <<x>> \o SetToSeq(S \ {x})

\* valid_constructor_inputs.get(class_name, [])
GetOrEmpty(d, key) == IF HasKey(d, key) THEN Get(d, key) ELSE <<>>

\* The set the factory definitions are emitted from: mock_functions as it is
\* when `if mock_functions:` is reached.
MocksKnown == mock_functions

\* `if mock_functions: for mock_func_name, class_name in mock_functions: ...`
EmitMockDefinitions ==
    /\ pg_pc = "mock_definitions"
    /\ content' = content \o
          [k \in 1..Len(SetToSeq(MocksKnown)) |->
              FactoryItem(SetToSeq(MocksKnown)[k][1], SetToSeq(MocksKnown)[k][2],
                          GetOrEmpty(valid_constructor_inputs,
                                     SetToSeq(MocksKnown)[k][2]))]
    /\ pg_pc' = "class_fixture"
    /\ UNCHANGED <<class_test_cases, mock_functions, valid_constructor_inputs, pg_i,
                   seed, first_run, gen_vars, ca_vars, pure_vars>>

\* The first constructor case without an error, if any.
ValidConstructorCases ==
    IF HasKey(class_test_cases, "__init__")
    THEN Regular(Get(class_test_cases, "__init__")) ELSE <<>>

\* The head of _generate_class_pytest_content: the instance fixture.
ClassFixture ==
    /\ pg_pc = "class_fixture"
    /\ IF class_test_cases # <<>> /\ ValidConstructorCases # <<>>
       THEN /\ content' = Append(content,
                              FixtureItem(InstanceFixture(ClsName),
                                          ValidConstructorCases[1].constructor_inputs))
            /\ valid_constructor_inputs' =
                   Put(valid_constructor_inputs, ClsName,
                       ValidConstructorCases[1].constructor_inputs)
       ELSE UNCHANGED <<content, valid_constructor_inputs>>
    /\ pg_pc' = "constructor_tests"
    /\ UNCHANGED <<class_test_cases, mock_functions, pg_i,
                   seed, first_run, gen_vars, ca_vars, pure_vars>>

\* `if '__init__' in test_cases:` - the constructor tests take no fixture.
ConstructorTests ==
    /\ pg_pc = "constructor_tests"
    /\ IF HasKey(class_test_cases, "__init__")
       THEN LET cases == Get(class_test_cases, "__init__")
                regular == Regular(cases)
                exceptional == Exceptional(cases)
            IN content' = content
                 \o (IF regular = <<>> THEN <<>>
                     ELSE <<TestItem(<<ClsName, "__init__", "regular", 0>>, "none",
                                     [k \in 1..Len(regular) |-> Row(regular[k], <<>>)])>>)
                 \o [k \in 1..Len(exceptional) |->
                       TestItem(<<ClsName, "__init__", "raises", k - 1>>, "none",
                                <<Row(exceptional[k], <<>>)>>)]
       ELSE UNCHANGED content
    /\ pg_pc' = IF MemberKeys # <<>> THEN "member_tests" ELSE "done"
    /\ pg_i' = 1
    /\ UNCHANGED <<class_test_cases, mock_functions, valid_constructor_inputs,
                   seed, first_run, gen_vars, ca_vars, pure_vars>>

\* One iteration of `for method_name, method_cases in test_cases.items()`.
RenderMemberTests ==
    /\ pg_pc = "member_tests"
    /\ LET key == MemberKeys[pg_i]
           cases == Get(class_test_cases, key)
       IN /\ content' = content \o MemberTests(ClsName, key, cases)
          /\ mock_functions' =
                IF MemberBranch(key, cases) = "method"
                THEN mock_functions \cup MocksOfCases(cases)
                ELSE mock_functions
    /\ IF pg_i < Len(MemberKeys)
       THEN pg_i' = pg_i + 1 /\ pg_pc' = "member_tests"
       ELSE pg_i' = pg_i /\ pg_pc' = "done"
    /\ UNCHANGED <<class_test_cases, valid_constructor_inputs,
                   seed, first_run, gen_vars, ca_vars, pure_vars>>

\* Case lists as the generators return them for a class whose constructor
\* takes one int.
CtorCaseOk(inputs) == ClassMethodTestCase(inputs, "__init__", <<>>, None, "None", FALSE)
CtorCaseRaises(inputs) ==
    ClassMethodTestCase(inputs, "__init__", <<>>, None, "ValueError", FALSE)

CtorCaseLists ==
    {<<>>, <<CtorCaseOk(<<PyInt(0)>>)>>, <<CtorCaseRaises(<<PyInt(0)>>)>>,
     <<CtorCaseRaises(<<PyInt(0)>>), CtorCaseOk(<<PyInt(1)>>)>>}

\* The constructor inputs found while probing, shared by the cases of a member.
ProbeInputs == {<<PyInt(0)>>, <<PyInt(7)>>}

MethodCaseLists(ci) ==
    {<<>>,
     <<ClassMethodTestCase(ci, "m", <<PyInt(1)>>, PyInt(8), "None", FALSE)>>,
     <<ClassMethodTestCase(ci, "m", <<PyInstance(PyInt(7)), PyBool(TRUE)>>, PyInt(8),
                           "None", FALSE)>>,
     <<ClassMethodTestCase(ci, "m", <<PyInt(1)>>, PyInt(8), "None", FALSE),
       ClassMethodTestCase(ci, "m", <<PyInstance(PyInt(7)), None>>, None,
                           "ValueError", FALSE)>>,
     <<ClassMethodTestCase(ci, "m", <<>>, None, "ValueError", FALSE)>>}

GetterCaseLists(ci) ==
    {<<>>, <<ClassMethodTestCase(ci, "get_value", <<>>, PyInt(7), "None", TRUE)>>}

SetterCaseLists(ci) ==
    {<<>>,
     <<ClassMethodTestCase(ci, "set_value", <<PyInt(1)>>, PyInt(1), "None", FALSE)>>,
     <<ClassMethodTestCase(ci, "set_value", <<PyInt(0)>>, None, "ValueError", FALSE)>>}

\* The orders generate_class_test_cases can leave the keys in: '__init__'
\* first, the methods sorted by name, then a property's get_ and set_ keys;
\* a property key that equals a method's name stays where the method put it.
KeyOrders ==
    {<<"__init__", "m", "get_value", "set_value">>,
     <<"__init__", "get_value", "m", "set_value">>,
     <<"__init__", "m", "set_value", "get_value">>}

ClassCaseMaps ==
    {LET keys == SelectSeq(order, LAMBDA key : key \in present)
     IN [n \in 1..Len(keys) |->
            Item(keys[n], CASE keys[n] = "__init__"  -> c
                            [] keys[n] = "m"         -> m
                            [] keys[n] = "get_value" -> g
                            [] OTHER                 -> st)] :
        order \in KeyOrders,
        present \in SUBSET {"__init__", "m", "get_value", "set_value"},
        c \in CtorCaseLists,
        m \in UNION {MethodCaseLists(ci) : ci \in ProbeInputs},
        g \in UNION {GetterCaseLists(ci) : ci \in ProbeInputs},
        st \in UNION {SetterCaseLists(ci) : ci \in ProbeInputs}}

InitPG ==
    /\ class_test_cases \in ClassCaseMaps
    /\ content = <<>> /\ mock_functions = {} /\ valid_constructor_inputs = <<>>
    /\ pg_pc = "mock_definitions" /\ pg_i = 1
    /\ seed = <<>> /\ first_run = NoRun
    /\ GenIdle
    /\ CAIdle
    /\ PureIdle

NextPG == EmitMockDefinitions \/ ClassFixture \/ ConstructorTests \/ RenderMemberTests

SpecPG == InitPG /\ [][NextPG]_vars

\* The tests rendered for the methods, getters and setters.
MemberTestItems ==
    SelectSeq(content, LAMBDA it : it.item = "test" /\ it.fixture # "none")

Defined(kind, name) ==
    \E k \in 1..Len(content) : content[k].item = kind /\ content[k].name = name

----------------------------------------------------------------------------
(* C29: in the file produced by generate_pytest_file every mock factory     *)
(* function a rendered method input refers to is also defined in that       *)
(* file: the set of referenced factories is complete when the factory       *)
(* definitions are emitted.                                                 *)

C29_ReferencedFactoriesDefined ==
    pg_pc = "done" =>
        \A t \in 1..Len(MemberTestItems) :
            \A r \in 1..Len(MemberTestItems[t].rows) :
                \A k \in 1..Len(MemberTestItems[t].rows[r].method_inputs) :
                    LET x == MemberTestItems[t].rows[r].method_inputs[k]
                    IN x.code = "call" => Defined("factory", x.name)

----------------------------------------------------------------------------
(* C30: in the class tests rendered by _generate_class_pytest_content the   *)
(* instance on which a method, getter or setter case is replayed is         *)
(* constructed with that case's own constructor inputs, and a rendered test *)
(* never depends on an instance fixture that the file does not define.      *)

\* The constructor inputs of the instance a fixture of the file returns.
FixtureInputs(name) ==
    (CHOOSE it \in {content[k] : k \in 1..Len(content)} :
         it.item = "fixture" /\ it.name = name).inputs

C30_ReplayedOnOwnInstance ==
    pg_pc = "done" =>
        \A t \in 1..Len(MemberTestItems) :
            /\ Defined("fixture", MemberTestItems[t].fixture)
            /\ \A r \in 1..Len(MemberTestItems[t].rows) :
                  FixtureInputs(MemberTestItems[t].fixture)
                      = MemberTestItems[t].rows[r].constructor_inputs

====
